---- MODULE Spec2Model ----
(***************************************************************************)
(* MoonGuard verification pipeline: process_new_file (main.py), the        *)
(* registry resolver (gov_api.py), parse_filename (file_watcher.py), the   *)
(* vision adapter's return contracts (ai_analyzer.py), the event store     *)
(* (database.py) and the watcher's processed counter.                      *)
(*                                                                         *)
(* Strings that the code indexes or splits (file names, plates) are        *)
(* sequences of one-character strings; other strings are TLA+ strings.     *)
(***************************************************************************)
EXTENDS Integers, Sequences, FiniteSets, TLC

\* Python's None.
None == "None"

(***************************************************************************)
(* config.py                                                               *)
(***************************************************************************)

\* Config.GOV_SEARCH_ORDER
GOV_SEARCH_ORDER ==
    << "main", "private_extended", "inactive",
       "off_road_1", "off_road_2", "off_road_3",
       "public", "motorcycle", "heavy", "heavy_2" >>

\* Config.GOV_DATABASES: name and alert of every registry.  db_info.get() of a
\* key the entry does not carry is None.
GOV_DATABASES ==
    [ main             |-> [name |-> "db:main",             alert_type |-> None,         alert_message |-> None],
      inactive         |-> [name |-> "db:inactive",         alert_type |-> "NO_LICENSE", alert_message |-> "msg:no_license"],
      off_road_1       |-> [name |-> "db:off_road_1",       alert_type |-> "OFF_ROAD",   alert_message |-> "msg:off_road"],
      off_road_2       |-> [name |-> "db:off_road_2",       alert_type |-> "OFF_ROAD",   alert_message |-> "msg:off_road"],
      off_road_3       |-> [name |-> "db:off_road_3",       alert_type |-> "OFF_ROAD",   alert_message |-> "msg:off_road"],
      public           |-> [name |-> "db:public",           alert_type |-> None,         alert_message |-> None],
      motorcycle       |-> [name |-> "db:motorcycle",       alert_type |-> None,         alert_message |-> None],
      heavy            |-> [name |-> "db:heavy",            alert_type |-> None,         alert_message |-> None],
      heavy_2          |-> [name |-> "db:heavy_2",          alert_type |-> None,         alert_message |-> None],
      private_extended |-> [name |-> "db:private_extended", alert_type |-> None,         alert_message |-> None] ]

\* Config.VALID_EXTENSIONS
VALID_EXTENSIONS ==
    { << ".", "j", "p", "g" >>, << ".", "j", "p", "e", "g" >>, << ".", "p", "n", "g" >> }

\* Config.LPR_VALID_LENGTHS
LPR_VALID_LENGTHS == {7, 8}

\* Config.AI_CONFIDENCE_THRESHOLD
AI_CONFIDENCE_THRESHOLD == 75

\* The confidence a yellow-plate answer needs (detect_yellow_plate).
YELLOW_PLATE_MIN_CONFIDENCE == 50

(***************************************************************************)
(* Python string helpers                                                   *)
(***************************************************************************)

Digits == {"0", "1", "2", "3", "4", "5", "6", "7", "8", "9"}

\* str.isdigit(): non-empty and every character a digit.
isdigit(s) == Len(s) > 0 /\ \A i \in 1..Len(s) : s[i] \in Digits

DigitVal(c) ==
    CASE c = "0" -> 0 [] c = "1" -> 1 [] c = "2" -> 2 [] c = "3" -> 3
      [] c = "4" -> 4 [] c = "5" -> 5 [] c = "6" -> 6 [] c = "7" -> 7
      [] c = "8" -> 8 [] c = "9" -> 9

\* int(s) of a string of decimal digits.
RECURSIVE int(_)
int(s) ==
    IF Len(s) = 0 THEN 0
    ELSE 10 * int(SubSeq(s, 1, Len(s) - 1)) + DigitVal(s[Len(s)])

\* s[a:b] for 0 <= a <= b: Python slices clip at the end of the string.
Slice(s, a, b) ==
    SubSeq(s, a + 1, IF b < Len(s) THEN b ELSE Len(s))

\* s[-n:] for n > 0.
Tail_n(s, n) ==
    IF n >= Len(s) THEN s ELSE SubSeq(s, Len(s) - n + 1, Len(s))

\* The positions of character c in s.
Positions(s, c) == {i \in 1..Len(s) : s[i] = c}

Max(S) == CHOOSE x \in S : \A y \in S : y <= x
Min(S) == CHOOSE x \in S : \A y \in S : x <= y

\* Path(filename).stem of a name without directory part: the name without its
\* last suffix; a leading dot or a trailing dot starts no suffix.
stem(filename) ==
    LET dots == Positions(filename, ".")
    IN  IF dots = {} THEN filename
        ELSE LET i == Max(dots)
             IN  IF i > 1 /\ i < Len(filename)
                 THEN SubSeq(filename, 1, i - 1)
                 ELSE filename

\* Path(filename).suffix of a name without directory part: the last suffix
\* with its dot, empty when the name has none.
suffix(filename) ==
    LET dots == Positions(filename, ".")
    IN  IF dots = {} THEN << >>
        ELSE LET i == Max(dots)
             IN  IF i > 1 /\ i < Len(filename)
                 THEN SubSeq(filename, i, Len(filename))
                 ELSE << >>

UpperCase == << "A", "B", "C", "D", "E", "F", "G", "H", "I", "J", "K", "L", "M",
                "N", "O", "P", "Q", "R", "S", "T", "U", "V", "W", "X", "Y", "Z" >>
LowerCase == << "a", "b", "c", "d", "e", "f", "g", "h", "i", "j", "k", "l", "m",
                "n", "o", "p", "q", "r", "s", "t", "u", "v", "w", "x", "y", "z" >>

\* str.lower(), on the letters A..Z.
lower(s) ==
    [ i \in 1..Len(s) |->
        IF \E k \in 1..26 : UpperCase[k] = s[i]
        THEN LowerCase[CHOOSE k \in 1..26 : UpperCase[k] = s[i]]
        ELSE s[i] ]

\* s.split(sep): a non-empty list, the pieces between the separators.
RECURSIVE split(_, _)
split(s, sep) ==
    LET at == Positions(s, sep)
    IN  IF at = {} THEN << s >>
        ELSE LET i == Min(at)
             IN  << SubSeq(s, 1, i - 1) >> \o split(SubSeq(s, i + 1, Len(s)), sep)

(***************************************************************************)
(* file_watcher.py: parse_filename                                         *)
(***************************************************************************)

\* A decoder that accepts a timestamp of 13 characters.
parse_filename_min13(filename) ==
    LET base_name == stem(filename)
        parts     == split(base_name, "_")
    IN  IF Len(parts) < 4
        THEN [valid |-> FALSE, error |-> "bad_format"]
        ELSE LET timestamp_full == parts[3]
             IN  IF Len(timestamp_full) < 13
                 THEN [valid |-> FALSE, error |-> "bad_time"]
                 ELSE LET date_str == Slice(timestamp_full, 0, 8)
                          time_str == Slice(timestamp_full, 8, 14)
                      IN  [ valid        |-> TRUE,
                            location_id  |-> parts[1] \o << "_" >> \o parts[2],
                            raw_date     |-> date_str,
                            display_time |-> Slice(time_str, 0, 2) \o << ":" >>
                                             \o Slice(time_str, 2, 4) \o << ":" >>
                                             \o Slice(time_str, 4, 6),
                            display_date |-> Slice(date_str, 6, 8) \o << "/" >>
                                             \o Slice(date_str, 4, 6) \o << "/" >>
                                             \o Slice(date_str, 0, 4),
                            lpr          |-> parts[4] ]

parse_filename(filename) ==
    LET base_name == stem(filename)
        parts     == split(base_name, "_")
    IN  IF Len(parts) < 4
        THEN [valid |-> FALSE, error |-> "bad_format"]
        ELSE LET timestamp_full == parts[3]
             IN  IF Len(timestamp_full) < 14
                 THEN [valid |-> FALSE, error |-> "bad_time"]
                 ELSE LET date_str == Slice(timestamp_full, 0, 8)
                          time_str == Slice(timestamp_full, 8, 14)
                      IN  [ valid        |-> TRUE,
                            location_id  |-> parts[1] \o << "_" >> \o parts[2],
                            raw_date     |-> date_str,
                            display_time |-> Slice(time_str, 0, 2) \o << ":" >>
                                             \o Slice(time_str, 2, 4) \o << ":" >>
                                             \o Slice(time_str, 4, 6),
                            display_date |-> Slice(date_str, 6, 8) \o << "/" >>
                                             \o Slice(date_str, 4, 6) \o << "/" >>
                                             \o Slice(date_str, 0, 4),
                            lpr          |-> parts[4] ]

(***************************************************************************)
(* gov_api.py                                                              *)
(***************************************************************************)

\* A validation that accepts a plate of digits of any length.
validate_lpr_any_length(lpr) ==
    /\ Len(lpr) > 0
    /\ isdigit(lpr)

\* validate_lpr
validate_lpr(lpr) ==
    /\ Len(lpr) > 0
    /\ isdigit(lpr)
    /\ Len(lpr) \in LPR_VALID_LENGTHS

\* A JSON value of a registry record: its Python type and its text.
PyStr(s) == [type |-> "str", val |-> s]
PyInt(s) == [type |-> "int", val |-> s]
PyNone   == [type |-> "NoneType", val |-> "None"]

\* Python truthiness of such a value (None, "" and 0 are falsy).
Truthy(v) ==
    /\ v.type # "NoneType"
    /\ ~(v.type = "str" /\ v.val = "")
    /\ ~(v.type = "int" /\ v.val = "0")

\* record.get(key)
Get(record, key) == IF key \in DOMAIN record THEN record[key] ELSE PyNone

\* a or b or ... or default, over the values of the listed keys.
RECURSIVE FirstTruthy(_, _, _)
FirstTruthy(record, keys, default) ==
    IF Len(keys) = 0 THEN default
    ELSE IF Truthy(Get(record, Head(keys))) THEN Get(record, Head(keys))
         ELSE FirstTruthy(record, Tail(keys), default)

\* The "unknown" sentinel of extract_vehicle_data.
UNKNOWN_TEXT == PyStr("unknown")

\* extract_vehicle_data: the per-attribute fallback chains; year goes through str().
extract_vehicle_data(record) ==
    [ manufacturer |-> FirstTruthy(record, << "tozeret_nm", "tozeret_cd", "tozeret" >>, UNKNOWN_TEXT),
      model        |-> FirstTruthy(record, << "kinuy_mishari", "degem_nm", "degem_cd" >>, UNKNOWN_TEXT),
      color        |-> FirstTruthy(record, << "tzeva_rechev", "tzeva_cd" >>, UNKNOWN_TEXT),
      year         |-> PyStr(FirstTruthy(record, << "shnat_yitzur", "shnat_yitsur" >>, UNKNOWN_TEXT).val) ]

\* The shapes of record a registry answers with: named attributes, numeric codes
\* only, or none of the attributes the extractor reads.
RecordShapes == {"named", "coded", "bare"}

\* The record registry db_key holds for the plate, in the given shape.  Every
\* registry holds its own attribute values.
RegistryRecord(db_key, shape) ==
    CASE shape = "named" ->
           [ tozeret_nm    |-> PyStr("tozeret:" \o db_key),
             kinuy_mishari |-> PyStr("kinuy:" \o db_key),
             tzeva_rechev  |-> PyStr("tzeva:" \o db_key),
             shnat_yitzur  |-> PyInt("2020") ]
      [] shape = "coded" ->
           [ tozeret_cd   |-> PyInt("683"),
             degem_cd     |-> PyInt("12"),
             tzeva_cd     |-> PyInt("80"),
             shnat_yitsur |-> PyInt("2019") ]
      [] shape = "bare" ->
           [ mispar_rechev |-> PyInt("1234567") ]

\* What one registry answers to a query: no record ("miss"), a timeout, a
\* transport error or a non-success status ("error"), or a record of some shape.
ResponseKinds == {"miss", "error"} \cup RecordShapes

\* search_single_database: (found, record) for the registry's answer; every
\* exception ends as (False, None), None being the record with no field.
search_single_database(db_key, response) ==
    IF response \in RecordShapes
    THEN [found |-> TRUE, record |-> RegistryRecord(db_key, response)]
    ELSE [found |-> FALSE, record |-> << >>]

\* GovData() with the model's defaults.
GovData_default ==
    [ found |-> FALSE, manufacturer |-> None, model |-> None, color |-> None,
      year |-> None, error |-> None, source_db |-> None,
      alert_type |-> None, alert_message |-> None ]

\* GovData validates Optional[str] fields: a number where a string is declared
\* is refused (pydantic 2, whose model_dump / model_validate_json the code uses).
GovData_valid(vehicle_data) ==
    /\ vehicle_data.manufacturer.type = "str"
    /\ vehicle_data.model.type = "str"
    /\ vehicle_data.color.type = "str"
    /\ vehicle_data.year.type = "str"

\* A result that says not found and raises no alert.
GovData_not_found ==
    [ GovData_default EXCEPT !.found = FALSE ]

\* The result of the resolver when the order is exhausted.
GovData_fake_plate ==
    [ GovData_default EXCEPT !.found = FALSE,
                             !.alert_type = "FAKE_PLATE",
                             !.alert_message = "msg:fake_plate" ]

\* What the loop of search_all_databases does with a matching registry.
MatchResult(db_key, record, queried) ==
    LET db_info      == GOV_DATABASES[db_key]
        vehicle_data == extract_vehicle_data(record)
    IN  IF GovData_valid(vehicle_data)
        THEN [ raised  |-> FALSE,
               queried |-> queried,
               data    |-> [ GovData_default EXCEPT
                               !.found = TRUE,
                               !.manufacturer = vehicle_data.manufacturer.val,
                               !.model = vehicle_data.model.val,
                               !.color = vehicle_data.color.val,
                               !.year = vehicle_data.year.val,
                               !.source_db = db_info.name,
                               !.alert_type = db_info.alert_type,
                               !.alert_message = db_info.alert_message ] ]
        ELSE [ raised |-> TRUE, queried |-> queried, data |-> GovData_default ]

\* search_all_databases from position i of the order on: responses gives every
\* registry's answer, queried the registries asked so far.
RECURSIVE SearchFrom(_, _, _)

\* A resolver that ends the search at a registry that fails.
SearchFrom_error_ends(responses, i, queried) ==
    IF i > Len(GOV_SEARCH_ORDER)
    THEN [ raised |-> FALSE, queried |-> queried, data |-> GovData_fake_plate ]
    ELSE LET db_key == GOV_SEARCH_ORDER[i]
             res    == search_single_database(db_key, responses[db_key])
             asked  == Append(queried, db_key)
         IN  IF res.found /\ DOMAIN res.record # {}
             THEN MatchResult(db_key, res.record, asked)
             ELSE IF responses[db_key] = "error"
                  THEN [ raised |-> FALSE, queried |-> asked, data |-> GovData_fake_plate ]
                  ELSE SearchFrom(responses, i + 1, asked)

SearchFrom(responses, i, queried) ==
    IF i > Len(GOV_SEARCH_ORDER)
    THEN [ raised |-> FALSE, queried |-> queried, data |-> GovData_fake_plate ]
    ELSE LET db_key == GOV_SEARCH_ORDER[i]
         IN  IF db_key \notin DOMAIN GOV_DATABASES
             THEN SearchFrom(responses, i + 1, queried)
             ELSE LET res == search_single_database(db_key, responses[db_key])
                      now == Append(queried, db_key)
                  IN  IF res.found /\ DOMAIN res.record # {}
                      THEN MatchResult(db_key, res.record, now)
                      ELSE SearchFrom(responses, i + 1, now)

\* A resolver that does not stop at a match: it asks every registry and keeps
\* the last match.
RECURSIVE SearchOn(_, _, _, _)
SearchOn(responses, i, queried, best) ==
    IF i > Len(GOV_SEARCH_ORDER)
    THEN [best EXCEPT !.queried = queried]
    ELSE LET db_key == GOV_SEARCH_ORDER[i]
             res    == search_single_database(db_key, responses[db_key])
             now    == Append(queried, db_key)
         IN  IF res.found /\ DOMAIN res.record # {}
             THEN SearchOn(responses, i + 1, now, MatchResult(db_key, res.record, now))
             ELSE SearchOn(responses, i + 1, now, best)

search_all_databases_last(responses) ==
    SearchOn(responses, 1, << >>,
             [raised |-> FALSE, queried |-> << >>, data |-> GovData_fake_plate])

search_all_databases(responses) == SearchFrom(responses, 1, << >>)

\* get_vehicle_data: the resolver's result, an exception turned into
\* GovData(found=False, error=...).  queried is kept beside the data.
get_vehicle_data(responses) ==
    LET out == search_all_databases(responses)
    IN  IF out.raised
        THEN [ queried |-> out.queried,
               data    |-> [ GovData_default EXCEPT !.found = FALSE, !.error = "error" ] ]
        ELSE [ queried |-> out.queried, data |-> out.data ]

(***************************************************************************)
(* ai_analyzer.py: what the three vision operations return for an answer   *)
(* of the collaborator.  An answer is [kind, flag, confidence]: kind       *)
(* "json" is a parsed JSON object (flag is its skip / yellow_plate_found / *)
(* target_found), "no_file" a missing image, "exception" a failed call,    *)
(* "no_json" a text without a parsable JSON object.                        *)
(***************************************************************************)

AnswerKinds == {"json", "no_file", "exception", "no_json"}

\* The text of a response is a sequence of tokens: "{" and "}", a word of
\* prose "w", and the members of a verdict, "flag:true", "conf:49", "conf:50"
\* (the flag is skip, yellow_plate_found or target_found).  Inside an object
\* "{" opens the object value of some member.
Braces == {"{", "}"}

\* The number a "conf:" member gives.
MemberConfidence(token) ==
    CASE token = "conf:49" -> 49
      [] token = "conf:50" -> 50
      [] OTHER -> 0

\* str.find: the 0-based position of the first c in text, -1 when none.
find(text, c) ==
    IF Positions(text, c) = {} THEN 0 - 1 ELSE Min(Positions(text, c)) - 1

\* str.rfind: the 0-based position of the last c in text, -1 when none.
rfind(text, c) ==
    IF Positions(text, c) = {} THEN 0 - 1 ELSE Max(Positions(text, c)) - 1

\* How many objects are open after the first i tokens of text.
Depth(text, i) ==
    Cardinality({j \in 1..i : text[j] = "{"}) - Cardinality({j \in 1..i : text[j] = "}"})

\* json.loads(json_str) returns an object: json_str is one object, closed by
\* its last token and not before, with no prose in it.  Otherwise it raises
\* JSONDecodeError.
json_loads_ok(json_str) ==
    /\ Len(json_str) >= 2
    /\ json_str[1] = "{"
    /\ Depth(json_str, Len(json_str)) = 0
    /\ \A i \in 1..(Len(json_str) - 1) : Depth(json_str, i) >= 1
    /\ \A i \in 1..Len(json_str) : json_str[i] # "w"

\* The members of the object itself, not of the objects inside it.
OwnMembers(json_str) ==
    {i \in 2..(Len(json_str) - 1) :
        json_str[i] \notin Braces /\ Depth(json_str, i) = 1}

\* result.get(<flag>, False): the last member of that name decides.
get_flag(json_str) ==
    LET at == {i \in OwnMembers(json_str) : json_str[i] \in {"flag:true", "flag:false"}}
    IN  IF at = {} THEN FALSE ELSE json_str[Max(at)] = "flag:true"

\* result.get("confidence", 0)
get_confidence(json_str) ==
    LET at == {i \in OwnMembers(json_str) : json_str[i] \in {"conf:49", "conf:50"}}
    IN  IF at = {} THEN 0 ELSE MemberConfidence(json_str[Max(at)])

\* json_start = content.find("{"); json_end = content.rfind("}") + 1;
\* content[json_start:json_end] when json_start >= 0 and json_end >
\* json_start, else nothing (ValueError, or no result).
extract_json(content) ==
    LET json_start == find(content, "{")
        json_end   == rfind(content, "}") + 1
    IN  IF json_start >= 0 /\ json_end > json_start
        THEN Slice(content, json_start, json_end)
        ELSE << >>

\* What the three operations make of the text of a response: the flag and
\* the confidence of the object extracted, or a failure to parse.
response_answer(content) ==
    LET json_str == extract_json(content)
    IN  IF json_loads_ok(json_str)
        THEN [kind |-> "json", flag |-> get_flag(json_str),
              confidence |-> get_confidence(json_str)]
        ELSE [kind |-> "no_json", flag |-> FALSE, confidence |-> 0]

\* A pre-screen that skips the image when the call fails.
pre_screen_image_fails_closed(answer) ==
    IF answer.kind = "json" THEN [skip |-> answer.flag] ELSE [skip |-> TRUE]

\* pre_screen_image: {"skip": ...}
pre_screen_image(answer) ==
    IF answer.kind = "json" THEN [skip |-> answer.flag] ELSE [skip |-> FALSE]

\* A check that wants more than the threshold.
detect_yellow_plate_above(answer) ==
    IF answer.kind = "json"
    THEN answer.flag /\ answer.confidence > YELLOW_PLATE_MIN_CONFIDENCE
    ELSE FALSE

\* detect_yellow_plate: found and confidence >= 50
detect_yellow_plate(answer) ==
    IF answer.kind = "json"
    THEN answer.flag /\ answer.confidence >= YELLOW_PLATE_MIN_CONFIDENCE
    ELSE FALSE

\* AIAnalysis(...)
AIAnalysis(scene, found, conf, why) ==
    [ scene_description |-> scene, target_found |-> found,
      confidence |-> conf, reasoning |-> why ]

\* An analysis that notes no parse failure.
analyze_vehicle_image_silent(answer) ==
    CASE answer.kind = "json"      -> AIAnalysis("scene", answer.flag, answer.confidence, "reasoning")
      [] answer.kind = "no_file"   -> AIAnalysis("error:no_file", FALSE, 0, None)
      [] answer.kind = "no_json"   -> AIAnalysis("content", FALSE, 0, None)
      [] answer.kind = "exception" -> AIAnalysis("error:exception", FALSE, 0, None)

\* analyze_vehicle_image
analyze_vehicle_image(answer) ==
    CASE answer.kind = "json"      -> AIAnalysis("scene", answer.flag, answer.confidence, "reasoning")
      [] answer.kind = "no_file"   -> AIAnalysis("error:no_file", FALSE, 0, None)
      [] answer.kind = "no_json"   -> AIAnalysis("content", FALSE, 0, "parse_error")
      [] answer.kind = "exception" -> AIAnalysis("error:exception", FALSE, 0, None)

(***************************************************************************)
(* models.py: EventStatus, VehicleEvent                                    *)
(***************************************************************************)

EventStatus ==
    { "VERIFIED", "ALERT", "UNKNOWN", "PROCESSING", "ERROR",
      "NO_LICENSE", "OFF_ROAD", "FAKE_PLATE" }

\* VehicleEvent(...) as process_new_file creates it; timestamp is
\* datetime.now(), read as the rank of the event among the events created.
VehicleEvent(meta, filename, timestamp) ==
    [ id             |-> 0,
      timestamp      |-> timestamp,
      display_time   |-> meta.display_time,
      display_date   |-> meta.display_date,
      location_id    |-> meta.location_id,
      lpr            |-> meta.lpr,
      gov_data       |-> GovData_default,
      ai_analysis    |-> AIAnalysis("", FALSE, 0, None),
      status         |-> "PROCESSING",
      image_filename |-> filename ]

\* The value of event[r] while run r has created no event.
NoEvent == [status |-> "NONE"]

(***************************************************************************)
(* main.py: the decisions of process_new_file                              *)
(***************************************************************************)

\* The suffix test with its lower end off by one (91..99).
suffix_excluded_from_91(lpr) ==
    /\ Len(lpr) = 7
    /\ 90 < int(Tail_n(lpr, 2))
    /\ int(Tail_n(lpr, 2)) <= 99

\* Lines 121-130: a 7-digit plate whose last two digits are 90..99.
suffix_excluded(lpr) ==
    /\ Len(lpr) = 7
    /\ 90 <= int(Tail_n(lpr, 2))
    /\ int(Tail_n(lpr, 2)) <= 99

\* The fake-plate event with the status of a plain mismatch.
classify_fake_plate_as_alert(ev) ==
    [ ev EXCEPT !.status = "ALERT",
                !.ai_analysis = AIAnalysis("fake_plate", FALSE, 0, None) ]

\* Lines 183-189: the fake-plate event.
classify_fake_plate(ev) ==
    [ ev EXCEPT !.status = "FAKE_PLATE",
                !.ai_analysis = AIAnalysis("fake_plate", FALSE, 0, None) ]

\* The registry alerts with the verdict of the fake-plate branch.
classify_alert_zero_verdict(ev, gov_data) ==
    CASE gov_data.alert_type = "NO_LICENSE" ->
           [ ev EXCEPT !.status = "NO_LICENSE",
                       !.ai_analysis = AIAnalysis(gov_data.alert_message, FALSE, 0, None) ]
      [] gov_data.alert_type = "OFF_ROAD" ->
           [ ev EXCEPT !.status = "OFF_ROAD",
                       !.ai_analysis = AIAnalysis(gov_data.alert_message, FALSE, 0, None) ]
      [] OTHER -> ev

\* The registry alerts without the OFF_ROAD branch.
classify_alert_no_off_road(ev, gov_data) ==
    CASE gov_data.alert_type = "NO_LICENSE" ->
           [ ev EXCEPT !.status = "NO_LICENSE",
                       !.ai_analysis = AIAnalysis(gov_data.alert_message, TRUE, 100, None) ]
      [] OTHER -> ev

\* Lines 192-208: the registry alerts.  An alert type that is none of the
\* branches leaves the event as it is.
classify_alert(ev, gov_data) ==
    CASE gov_data.alert_type = "NO_LICENSE" ->
           [ ev EXCEPT !.status = "NO_LICENSE",
                       !.ai_analysis = AIAnalysis(gov_data.alert_message, TRUE, 100, None) ]
      [] gov_data.alert_type = "OFF_ROAD" ->
           [ ev EXCEPT !.status = "OFF_ROAD",
                       !.ai_analysis = AIAnalysis(gov_data.alert_message, TRUE, 100, None) ]
      [] OTHER -> ev

\* The unresolved plate classified as a mismatch.
classify_unknown_as_alert(ev) ==
    [ ev EXCEPT !.status = "ALERT",
                !.ai_analysis = AIAnalysis("error:gov", FALSE, 0, None) ]

\* Lines 210-218: not found and no alert.
classify_unknown(ev) ==
    [ ev EXCEPT !.status = "UNKNOWN",
                !.ai_analysis = AIAnalysis("error:gov", FALSE, 0, None) ]

\* The decision with a strict comparison against the threshold.
classify_verified_strict(ev, ai_result) ==
    [ ev EXCEPT !.ai_analysis = ai_result,
                !.status = IF ai_result.target_found
                              /\ ai_result.confidence > AI_CONFIDENCE_THRESHOLD
                           THEN "VERIFIED" ELSE "ALERT" ]

\* The decision with the threshold waived for the main registry.
classify_verified_by_registry(ev, ai_result) ==
    [ ev EXCEPT !.ai_analysis = ai_result,
                !.status = IF ai_result.target_found
                              /\ (ai_result.confidence >= AI_CONFIDENCE_THRESHOLD
                                  \/ ev.gov_data.source_db = "db:main")
                           THEN "VERIFIED" ELSE "ALERT" ]

\* Lines 226-235: the decision on the verify verdict.
classify_verified(ev, ai_result) ==
    [ ev EXCEPT !.ai_analysis = ai_result,
                !.status = IF ai_result.target_found
                              /\ ai_result.confidence >= AI_CONFIDENCE_THRESHOLD
                           THEN "VERIFIED" ELSE "ALERT" ]

(***************************************************************************)
(* database.py                                                             *)
(***************************************************************************)

\* get_stats over the rows of the events table.
get_stats(rows) ==
    LET n(st) == Cardinality({i \in 1..Len(rows) : rows[i].status = st})
    IN  [ total_events   |-> Len(rows),
          verified_count |-> n("VERIFIED"),
          alert_count    |-> n("ALERT"),
          unknown_count  |-> n("UNKNOWN") ]

\* ORDER BY timestamp DESC over a set of rows.
RECURSIVE order_by_timestamp_desc(_)
order_by_timestamp_desc(S) ==
    IF S = {} THEN << >>
    ELSE LET newest == CHOOSE x \in S : \A y \in S : y.timestamp <= x.timestamp
         IN  << newest >> \o order_by_timestamp_desc(S \ {newest})

\* get_events(limit): the limit rows of the latest timestamps, newest first.
get_events(rows, limit) ==
    LET all == order_by_timestamp_desc({rows[i] : i \in 1..Len(rows)})
    IN  SubSeq(all, 1, IF limit < Len(all) THEN limit ELSE Len(all))

\* reversed(events)
reversed(events) == [i \in 1..Len(events) |-> events[Len(events) + 1 - i]]

\* A clearing that takes UNKNOWN for an alert.
delete_non_alert_events_keeps_unknown(rows) ==
    LET alert_statuses == {"ALERT", "FAKE_PLATE", "NO_LICENSE", "OFF_ROAD", "UNKNOWN"}
        kept == SelectSeq(rows, LAMBDA row : row.status \in alert_statuses)
    IN  [ rows |-> kept, deleted_count |-> Len(rows) - Len(kept) ]

\* delete_non_alert_events over the rows of the events table:
\* DELETE FROM events WHERE status NOT IN (...), and cursor.rowcount.
delete_non_alert_events(rows) ==
    LET alert_statuses == {"ALERT", "FAKE_PLATE", "NO_LICENSE", "OFF_ROAD"}
        kept == SelectSeq(rows, LAMBDA row : row.status \in alert_statuses)
    IN  [ rows |-> kept, deleted_count |-> Len(rows) - Len(kept) ]

(***************************************************************************)
(* Inputs                                                                  *)
(***************************************************************************)

\* The most registries that answer something else than "no record" to one run.
MaxResponding == 2

\* The largest confidence the collaborator answers.
MaxConfidence == 100

\* The most runs in flight together.
MaxRuns == 2

Runs == 1..MaxRuns

DbKeys == {GOV_SEARCH_ORDER[i] : i \in 1..Len(GOV_SEARCH_ORDER)}

\* The answers of all registries to one run's plate.
Responses ==
    UNION { { [k \in DbKeys |-> IF k \in S THEN g[k] ELSE "miss"] :
                g \in [S -> ResponseKinds \ {"miss"}] } :
            S \in {T \in SUBSET DbKeys : Cardinality(T) <= MaxResponding} }

\* Registries that all answer, each with a match or with no record.
FewResponses ==
    { [k \in DbKeys |-> IF k = hit THEN "named" ELSE "miss"] :
        hit \in {"main", "public", "inactive", "off_road_1", "off_road_3", None} }
    \cup { [k \in DbKeys |-> IF k = "main" THEN "coded" ELSE "miss"] }

Answer(kind, flag, conf) == [kind |-> kind, flag |-> flag, confidence |-> conf]

Failures == { Answer(k, FALSE, 0) : k \in AnswerKinds \ {"json"} }

\* The collaborator's answers to pre_screen_image.
PreScreenAnswers == { Answer("json", b, 0) : b \in BOOLEAN } \cup Failures

\* The collaborator's answers to detect_yellow_plate.
YellowAnswers ==
    { Answer("json", b, c) : b \in BOOLEAN,
                             c \in {0, YELLOW_PLATE_MIN_CONFIDENCE - 1,
                                    YELLOW_PLATE_MIN_CONFIDENCE, 80, MaxConfidence} }
    \cup Failures

\* The collaborator's answers to analyze_vehicle_image.
VerifyAnswers ==
    { Answer("json", b, c) : b \in BOOLEAN, c \in 0..MaxConfidence } \cup Failures

FewVerifyAnswers ==
    { Answer("json", b, c) : b \in BOOLEAN,
                             c \in {AI_CONFIDENCE_THRESHOLD - 1, AI_CONFIDENCE_THRESHOLD} }

FewYellowAnswers == { Answer("json", b, 80) : b \in BOOLEAN }

FewPreScreenAnswers == { Answer("json", b, 0) : b \in BOOLEAN }

\* File names: <siteA>_<siteB>_<YYYYMMDDHHMMSSfff>_<plate>_<n>_<camera>.jpg
SiteA    == << "9", "9", "0", "8" >>
SiteB    == << "0", "1" >>
SiteC    == << "0", "2" >>
Stamp    == << "2", "0", "2", "5", "1", "2", "1", "1",
               "1", "2", "1", "4", "3", "4", "9", "7", "4" >>
\* Seventeen characters that are not all digits.
StampT   == << "2", "0", "2", "5", "1", "2", "1", "1", "T",
               "1", "2", "1", "4", "3", "4", "9", "7" >>
JpgTail  == << "_", "1", "_", "P", "1", ".", "j", "p", "g" >>
Us       == << "_" >>

CaptureName(site, stamp, plate) ==
    SiteA \o Us \o site \o Us \o stamp \o Us \o plate \o JpgTail

Plates ==
    { << "7", "0", "7", "2", "9", "9", "6" >>,
      << "1", "2", "3", "4", "5", "6", "7" >>,
      << "1", "2", "3", "4", "5", "9", "0" >>,
      << "1", "2", "3", "4", "5", "9", "9" >>,
      << "1", "2", "3", "4", "5", "8", "9" >>,
      << "1", "2", "3", "4", "5", "6", "9", "8" >>,
      << "1", "2", "A", "B", "5", "6", "7" >>,
      << "1", "2", "3", "4", "5", "6" >>,
      << "1", "2", "3", "4", "5", "6", "7", "8", "9" >>,
      << >> }

FileNames ==
    { CaptureName(SiteB, Stamp, p) : p \in Plates }
    \cup { CaptureName(SiteB, SubSeq(Stamp, 1, 13), << "1", "2", "3", "4", "5", "6", "7" >>),
           << "I", "M", "G", "_", "0", "0", "1", ".", "j", "p", "g" >>,
           SiteA \o Us \o SiteB \o Us \o Stamp \o << ".", "j", "p", "g" >>,
           CaptureName(SiteB, SubSeq(Stamp, 1, 14), << "1", "2", "3", "4", "5", "6", "7" >>),
           CaptureName(SiteB, StampT, << "1", "2", "3", "4", "5", "6", "7" >>) }

FewFileNames ==
    { CaptureName(SiteB, Stamp, << "1", "2", "3", "4", "5", "6", "7" >>),
      CaptureName(SiteC, Stamp, << "7", "6", "5", "4", "3", "2", "1" >>) }

\* Two captures of one plate at two sites: two paths, the same plate.
SamePlateNames ==
    { CaptureName(SiteB, Stamp, << "1", "2", "3", "4", "5", "6", "7" >>),
      CaptureName(SiteC, Stamp, << "1", "2", "3", "4", "5", "6", "7" >>) }

\* Registries that all answer: a match in the main registry, or no record
\* in any.
MainOrNoResponses ==
    { [k \in DbKeys |-> IF k = hit THEN "named" ELSE "miss"] : hit \in {"main", None} }

\* The most on_created events the notifier delivers.
MaxCreated == 2

\* The last instant of the clock.
MaxClock == 1

\* The most observers started.
MaxSessions == 2

\* The most websockets.
MaxSockets == 3

\* The limit of the initial replay (limit=20 on line 492 of main.py), scaled
\* to the runs of the model.
ReplayLimit == 1

\* The subscribers of the initial replay.
Subscribers == {1}

Sockets == 1..MaxSockets

\* The paths the notifier reports: a capture, a name with an upper-case
\* extension, and a name with another extension.
WatchPaths ==
    { CaptureName(SiteB, Stamp, << "1", "2", "3", "4", "5", "6", "7" >>),
      << "a", ".", "J", "P", "G" >>,
      << "n", ".", "t", "x", "t" >> }

\* file_path.stat() at the time of the event: {} when it raises OSError,
\* {t} for a file whose st_ctime is t.
Stats == {{}} \cup {{t} : t \in 0..MaxClock}

\* The messages handed to broadcast.
Messages == {"new_event", "stats_update"}

\* The most tokens in the text of a response.
MaxText == 5

Tokens == {"{", "}", "w", "flag:true", "flag:false", "conf:49", "conf:50"}

\* response.choices[0].message.content
Contents == UNION { [1..n -> Tokens] : n \in 0..MaxText }

\* What a vision operation meets: no image file, an exception of the
\* collaborator, or a response with its text.
VisionInputs ==
    { [kind |-> "response", content |-> c] : c \in Contents }
    \cup { [kind |-> k, content |-> << >>] : k \in {"no_file", "exception"} }

\* The answer, as the operations read it, that an input amounts to.
input_answer(input) ==
    IF input.kind = "response"
    THEN response_answer(input.content)
    ELSE [kind |-> input.kind, flag |-> FALSE, confidence |-> 0]

\* The most components in a file name handed to parse_filename alone.
MaxParts == 4

\* The components such a name is made of.
Components ==
    { SiteA, SiteB, Stamp, SubSeq(Stamp, 1, 14), SubSeq(Stamp, 1, 13),
      << "1", "2", "3", "4", "5", "6", "7" >>, << >> }

\* The components joined by "_".
RECURSIVE JoinParts(_)
JoinParts(parts) ==
    IF Len(parts) = 0 THEN << >>
    ELSE IF Len(parts) = 1 THEN parts[1]
    ELSE parts[1] \o Us \o JoinParts(Tail(parts))

\* The names handed to parse_filename alone: their components, and the
\* extension after them.
ParseInputs ==
    { [parts |-> ps, ext |-> e] :
        ps \in UNION { [1..n -> Components] : n \in 1..MaxParts },
        e \in { << >>, << ".", "j", "p", "g" >> } }

\* The most rows in the events table when it is cleared.
MaxRows == 3

\* The tables to clear: rows numbered in insertion order, of any status.
StoredRows ==
    UNION { { [i \in 1..n |-> [id |-> i, status |-> st[i]]] : st \in [1..n -> EventStatus] } :
            n \in 0..MaxRows }

(***************************************************************************)
(* State                                                                   *)
(***************************************************************************)

VARIABLES
    pc,               \* pc[r]: where run r of process_new_file stands
    file,             \* file[r]: file_path.name of run r
    fs,               \* fs[r]: where the file of run r is
    event,            \* event[r]: the VehicleEvent of run r
    has_yellow_plate, \* has_yellow_plate[r]: the local of that name, as text
    event_id,         \* event_id[r]: the row id save_event returns to run r
    trace,            \* trace[r]: the calls run r has made, in order (history)
    db_events,        \* the rows of the events table, in insertion order
    db_seq,           \* the AUTOINCREMENT counter of the events table
    files_processed,  \* watcher._files_processed
    broadcasts,       \* the messages handed to manager.broadcast, in order
    logger_error,     \* logger_error[r]: the failures run r has logged, in order
    call,             \* a function applied on its own: [fn, arg, done, ret]
    observer,         \* watcher._observer: None, or "alive"
    watched_folder,   \* watcher._watched_folder
    start_time,       \* watcher._start_time: {} for None, {t} for the time t
    handler,          \* the NewFileHandler of the observer: [start_time, processed_files]
    session,          \* the number of observers started so far
    now,              \* the clock
    log,              \* the on_created events delivered so far (history)
    tasks,            \* the coroutines on_created has scheduled, in order (history)
    pending,          \* the scheduled coroutines that still sleep, by position in tasks
    dispatched,       \* the coroutines that have called the callback, in order (history)
    active_connections, \* manager.active_connections
    endpoint,         \* endpoint[s]: where websocket_endpoint stands for socket s
    replay,           \* replay[s]: the initial messages of websocket_endpoint for socket s
    bcast             \* the call of manager.broadcast in progress

watcher_vars ==
    << observer, watched_folder, start_time, handler, session, now,
       log, tasks, pending, dispatched >>

manager_vars == << active_connections, endpoint, replay, bcast >>

vars ==
    << pc, file, fs, event, has_yellow_plate, event_id, trace,
       db_events, db_seq, files_processed, broadcasts, logger_error, call,
       watcher_vars, manager_vars >>

\* No function is applied on its own.
NoCall == [fn |-> "none"]

InitPipeline ==
    /\ pc = [r \in Runs |-> "idle"]
    /\ file = [r \in Runs |-> << >>]
    /\ fs = [r \in Runs |-> "none"]
    /\ event = [r \in Runs |-> NoEvent]
    /\ has_yellow_plate = [r \in Runs |-> None]
    /\ event_id = [r \in Runs |-> 0]
    /\ trace = [r \in Runs |-> << >>]
    /\ db_events = << >>
    /\ db_seq = 0
    /\ files_processed = 0
    /\ broadcasts = << >>
    /\ logger_error = [r \in Runs |-> << >>]

\* The handler that goes with no observer.
NoHandler == [start_time |-> 0, processed_files |-> {}]

\* DynamicWatcher.__init__, after lifespan has set the callback and the loop.
InitWatcher ==
    /\ observer = None
    /\ watched_folder = None
    /\ start_time = {}
    /\ handler = NoHandler
    /\ session = 0
    /\ now = 0
    /\ log = << >>
    /\ tasks = << >>
    /\ pending = {}
    /\ dispatched = << >>

\* No call of broadcast is in progress.
NoBroadcast ==
    [ pc |-> "idle", message |-> None, size |-> 0, initial |-> {}, visited |-> {},
      connection |-> 0, disconnected |-> {}, delivered |-> {},
      left |-> {}, joined |-> {} ]

\* ConnectionManager.__init__; no socket has connected.
\* The replay of a socket that has not connected: joined is the number of
\* broadcasts made before the socket was registered, events the stored
\* events still to send, sent the messages the endpoint has sent, each with
\* the number of broadcasts made before it.
NoReplay == [pc |-> "none", joined |-> 0, left |-> 0, events |-> << >>, sent |-> << >>]

InitManager ==
    /\ active_connections = {}
    /\ endpoint = [s \in Sockets |-> "closed"]
    /\ replay = [s \in Sockets |-> NoReplay]
    /\ bcast = NoBroadcast

Init == InitPipeline /\ call = NoCall /\ InitWatcher /\ InitManager

(***************************************************************************)
(* main.py: process_new_file, one action per stretch between two awaits    *)
(***************************************************************************)

\* A discard that returns without the unlink.
Discard_no_unlink(r, unlink_ok, calls) ==
    /\ pc' = [pc EXCEPT ![r] = "returned"]
    /\ fs' = [fs EXCEPT ![r] = "watched"]
    /\ trace' = [trace EXCEPT ![r] = calls]

\* A discard that moves the file to the processed folder.
Discard_moves(r, unlink_ok, calls) ==
    /\ pc' = [pc EXCEPT ![r] = "returned"]
    /\ fs' = [fs EXCEPT ![r] = IF unlink_ok THEN "processed" ELSE "watched"]
    /\ trace' = [trace EXCEPT ![r] = calls \o << IF unlink_ok THEN "rename" ELSE "rename_failed" >>]

\* A discard whose failing unlink leaves the run by exception.
Discard_raises(r, unlink_ok, calls) ==
    /\ pc' = [pc EXCEPT ![r] = IF unlink_ok THEN "returned" ELSE "raised"]
    /\ fs' = [fs EXCEPT ![r] = IF unlink_ok THEN "deleted" ELSE "watched"]
    /\ trace' = [trace EXCEPT ![r] = calls \o << IF unlink_ok THEN "unlink" ELSE "unlink_failed" >>]

\* try: file_path.unlink() except: pass/log; return
Discard(r, unlink_ok, calls) ==
    /\ pc' = [pc EXCEPT ![r] = "returned"]
    /\ fs' = [fs EXCEPT ![r] = IF unlink_ok THEN "deleted" ELSE "watched"]
    /\ trace' = [trace EXCEPT ![r] = calls \o << IF unlink_ok THEN "unlink" ELSE "unlink_failed" >>]

\* A run that is dropped while another run on the same plate is in flight.
Start_drops_plate_in_flight(r, filename, unlink_ok) ==
    IF \E q \in Runs :
          /\ pc[q] \notin {"idle", "returned", "raised"}
          /\ parse_filename(file[q]).lpr = parse_filename(filename).lpr
    THEN /\ pc[r] = "idle"
         /\ file' = [file EXCEPT ![r] = filename]
         /\ pc' = [pc EXCEPT ![r] = "returned"]
         /\ fs' = [fs EXCEPT ![r] = "watched"]
         /\ UNCHANGED << trace, logger_error, event, has_yellow_plate, event_id,
                         db_events, db_seq, files_processed, broadcasts, call,
                         watcher_vars, manager_vars >>
    ELSE
             /\ pc[r] = "idle"
             /\ \A q \in Runs : pc[q] # "idle" => file[q] # filename
             /\ file' = [file EXCEPT ![r] = filename]
             /\ LET meta == parse_filename(filename)
                IN  IF ~meta.valid
                    THEN /\ pc' = [pc EXCEPT ![r] = "returned"]
                         /\ fs' = [fs EXCEPT ![r] = "watched"]
                         /\ UNCHANGED trace
                    ELSE IF ~isdigit(meta.lpr)
                         THEN Discard(r, unlink_ok, trace[r])
                         ELSE IF ~validate_lpr(meta.lpr)
                              THEN Discard(r, unlink_ok, trace[r])
                              ELSE IF suffix_excluded(meta.lpr)
                                   THEN Discard(r, unlink_ok, trace[r])
                                   ELSE /\ pc' = [pc EXCEPT ![r] = "pre_screen"]
                                        /\ fs' = [fs EXCEPT ![r] = "watched"]
                                        /\ trace' = [trace EXCEPT ![r] = << "pre_screen_image" >>]
             /\ LET meta == parse_filename(filename)
                IN  logger_error' = [logger_error EXCEPT ![r] =
                        IF meta.valid /\ isdigit(meta.lpr) /\ ~validate_lpr(meta.lpr) /\ ~unlink_ok
                        THEN Append(@, "unlink") ELSE @]
             /\ UNCHANGED << event, has_yellow_plate, event_id, db_events, db_seq,
                             files_processed, broadcasts, call,
                             watcher_vars, manager_vars >>

\* Lines 89-135: from the call to the await of pre_screen_image.
Start(r, filename, unlink_ok) ==
    /\ pc[r] = "idle"
    /\ \A q \in Runs : pc[q] # "idle" => file[q] # filename
    /\ file' = [file EXCEPT ![r] = filename]
    /\ LET meta == parse_filename(filename)
       IN  IF ~meta.valid
           THEN /\ pc' = [pc EXCEPT ![r] = "returned"]
                /\ fs' = [fs EXCEPT ![r] = "watched"]
                /\ UNCHANGED trace
           ELSE IF ~isdigit(meta.lpr)
                THEN Discard(r, unlink_ok, trace[r])
                ELSE IF ~validate_lpr(meta.lpr)
                     THEN Discard(r, unlink_ok, trace[r])
                     ELSE IF suffix_excluded(meta.lpr)
                          THEN Discard(r, unlink_ok, trace[r])
                          ELSE /\ pc' = [pc EXCEPT ![r] = "pre_screen"]
                               /\ fs' = [fs EXCEPT ![r] = "watched"]
                               /\ trace' = [trace EXCEPT ![r] = << "pre_screen_image" >>]
    /\ LET meta == parse_filename(filename)
       IN  logger_error' = [logger_error EXCEPT ![r] =
               IF meta.valid /\ isdigit(meta.lpr) /\ ~validate_lpr(meta.lpr) /\ ~unlink_ok
               THEN Append(@, "unlink") ELSE @]
    /\ UNCHANGED << event, has_yellow_plate, event_id, db_events, db_seq,
                    files_processed, broadcasts, call,
                    watcher_vars, manager_vars >>

\* datetime.now() at the creation of an event: later than the timestamp of
\* every event created before.
datetime_now == 1 + Cardinality({q \in Runs : event[q] # NoEvent})

\* Lines 135-163: pre_screen_image returns; skip, or create the event and
\* await get_vehicle_data.
PreScreenReturn(r, answer, unlink_ok) ==
    /\ pc[r] = "pre_screen"
    /\ IF pre_screen_image(answer).skip
       THEN /\ Discard(r, unlink_ok, trace[r])
            /\ UNCHANGED event
       ELSE /\ event' = [event EXCEPT ![r] = VehicleEvent(parse_filename(file[r]), file[r], datetime_now)]
            /\ pc' = [pc EXCEPT ![r] = "gov"]
            /\ trace' = [trace EXCEPT ![r] = Append(@, "get_vehicle_data")]
            /\ UNCHANGED fs
    /\ UNCHANGED << file, has_yellow_plate, event_id, db_events, db_seq,
                    files_processed, broadcasts, logger_error, call,
                    watcher_vars, manager_vars >>

\* "get:<registry>" for every registry of the list.
RECURSIVE QueryCalls(_)
QueryCalls(queried) ==
    IF Len(queried) = 0 THEN << >>
    ELSE << "get:" \o Head(queried) >> \o QueryCalls(Tail(queried))

\* Lines 163-235: get_vehicle_data returns; the branch on its result, up to
\* the next await (detect_yellow_plate, analyze_vehicle_image or save_event).
GovReturn(r, responses) ==
    /\ pc[r] = "gov"
    /\ LET out      == get_vehicle_data(responses)
           gov_data == out.data
           ev       == [event[r] EXCEPT !.gov_data = gov_data]
           calls    == trace[r] \o QueryCalls(out.queried)
       IN  IF gov_data.alert_type # None
           THEN IF gov_data.alert_type = "FAKE_PLATE"
                THEN /\ event' = [event EXCEPT ![r] = ev]
                     /\ pc' = [pc EXCEPT ![r] = "yellow"]
                     /\ trace' = [trace EXCEPT ![r] = Append(calls, "detect_yellow_plate")]
                ELSE /\ event' = [event EXCEPT ![r] = classify_alert(ev, gov_data)]
                     /\ pc' = [pc EXCEPT ![r] = "save"]
                     /\ trace' = [trace EXCEPT ![r] = Append(calls, "save_event")]
           ELSE IF ~gov_data.found
                THEN /\ event' = [event EXCEPT ![r] = classify_unknown(ev)]
                     /\ pc' = [pc EXCEPT ![r] = "save"]
                     /\ trace' = [trace EXCEPT ![r] = Append(calls, "save_event")]
                ELSE /\ event' = [event EXCEPT ![r] = ev]
                     /\ pc' = [pc EXCEPT ![r] = "verify"]
                     /\ trace' = [trace EXCEPT ![r] = Append(calls, "analyze_vehicle_image")]
    /\ UNCHANGED << file, fs, has_yellow_plate, event_id, db_events, db_seq,
                    files_processed, broadcasts, logger_error, call,
                    watcher_vars, manager_vars >>

\* Lines 171-190: detect_yellow_plate returns.
YellowReturn(r, answer, unlink_ok) ==
    /\ pc[r] = "yellow"
    /\ LET yellow == detect_yellow_plate(answer)
       IN  /\ has_yellow_plate' = [has_yellow_plate EXCEPT ![r] = IF yellow THEN "True" ELSE "False"]
           /\ IF ~yellow
              THEN /\ Discard(r, unlink_ok, trace[r])
                   /\ UNCHANGED event
              ELSE /\ event' = [event EXCEPT ![r] = classify_fake_plate(@)]
                   /\ pc' = [pc EXCEPT ![r] = "save"]
                   /\ trace' = [trace EXCEPT ![r] = Append(@, "save_event")]
                   /\ UNCHANGED fs
    /\ logger_error' = [logger_error EXCEPT ![r] =
          IF ~detect_yellow_plate(answer) /\ ~unlink_ok THEN Append(@, "unlink") ELSE @]
    /\ UNCHANGED << file, event_id, db_events, db_seq, files_processed, broadcasts, call,
                    watcher_vars, manager_vars >>

\* A run that calls analyze_vehicle_image again when the call has failed.
VerifyReturn_retries(r, answer) ==
    /\ pc[r] = "verify"
    /\ IF answer.kind # "json" /\ trace[r][Len(trace[r]) - 1] # "analyze_vehicle_image"
       THEN /\ trace' = [trace EXCEPT ![r] = Append(@, "analyze_vehicle_image")]
            /\ UNCHANGED << event, pc >>
       ELSE /\ event' = [event EXCEPT ![r] = classify_verified(@, analyze_vehicle_image(answer))]
            /\ pc' = [pc EXCEPT ![r] = "save"]
            /\ trace' = [trace EXCEPT ![r] = Append(@, "save_event")]
    /\ UNCHANGED << file, fs, has_yellow_plate, event_id, db_events, db_seq,
                    files_processed, broadcasts, logger_error, call,
                    watcher_vars, manager_vars >>

\* Lines 226-238: analyze_vehicle_image returns.
VerifyReturn(r, answer) ==
    /\ pc[r] = "verify"
    /\ event' = [event EXCEPT ![r] = classify_verified(@, analyze_vehicle_image(answer))]
    /\ pc' = [pc EXCEPT ![r] = "save"]
    /\ trace' = [trace EXCEPT ![r] = Append(@, "save_event")]
    /\ UNCHANGED << file, fs, has_yellow_plate, event_id, db_events, db_seq,
                    files_processed, broadcasts, logger_error, call,
                    watcher_vars, manager_vars >>

\* A store that numbers the rows by the run's arrival, not by the commit.
SaveCommit_id_by_arrival(r) ==
    /\ pc[r] = "save"
    /\ db_seq' = db_seq + 1
    /\ db_events' = Append(db_events, [event[r] EXCEPT !.id = r])
    /\ event_id' = [event_id EXCEPT ![r] = r]
    /\ pc' = [pc EXCEPT ![r] = "saved"]
    /\ UNCHANGED << file, fs, event, has_yellow_plate, trace, files_processed, broadcasts, logger_error, call,
                    watcher_vars, manager_vars >>

\* database.py, save_event: the INSERT commits; the row gets the next id.
SaveCommit(r) ==
    /\ pc[r] = "save"
    /\ db_seq' = db_seq + 1
    /\ db_events' = Append(db_events, [event[r] EXCEPT !.id = db_seq + 1])
    /\ event_id' = [event_id EXCEPT ![r] = db_seq + 1]
    /\ pc' = [pc EXCEPT ![r] = "saved"]
    /\ UNCHANGED << file, fs, event, has_yellow_plate, trace, files_processed, broadcasts, logger_error, call,
                    watcher_vars, manager_vars >>

\* save_event raises (the store fails): nothing in process_new_file catches it.
SaveFail(r) ==
    /\ pc[r] = "save"
    /\ pc' = [pc EXCEPT ![r] = "raised"]
    /\ trace' = [trace EXCEPT ![r] = Append(@, "save_event_raised")]
    /\ UNCHANGED << file, fs, event, has_yellow_plate, event_id, db_events, db_seq,
                    files_processed, broadcasts, logger_error, call,
                    watcher_vars, manager_vars >>

\* A run that broadcasts the event as it was before save_event returned.
SaveReturn_stale_id(r) ==
    /\ pc[r] = "saved"
    /\ event' = [event EXCEPT ![r].id = event_id[r]]
    /\ files_processed' = files_processed + 1
    /\ broadcasts' = Append(broadcasts, [type |-> "new_event", data |-> event[r]])
    /\ trace' = [trace EXCEPT ![r] = @ \o << "increment_processed", "broadcast:new_event", "get_stats" >>]
    /\ pc' = [pc EXCEPT ![r] = "stats"]
    /\ UNCHANGED << file, fs, has_yellow_plate, event_id, db_events, db_seq, logger_error, call,
                    watcher_vars, manager_vars >>

\* Lines 238-251: save_event returns the id; the counter, the new_event
\* broadcast, and the await of get_stats.
SaveReturn(r) ==
    /\ pc[r] = "saved"
    /\ event' = [event EXCEPT ![r].id = event_id[r]]
    /\ files_processed' = files_processed + 1
    /\ broadcasts' = Append(broadcasts, [type |-> "new_event", data |-> event'[r]])
    /\ trace' = [trace EXCEPT ![r] = @ \o << "increment_processed", "broadcast:new_event", "get_stats" >>]
    /\ pc' = [pc EXCEPT ![r] = "stats"]
    /\ UNCHANGED << file, fs, has_yellow_plate, event_id, db_events, db_seq, logger_error, call,
                    watcher_vars, manager_vars >>

\* A run that finishes only when no other run awaits a vision call.
StatsReturn_after_vision_calls(r, rename_ok) ==
    /\ pc[r] = "stats"
    /\ \A q \in Runs : pc[q] \notin {"pre_screen", "yellow", "verify"}
    /\ broadcasts' = Append(broadcasts, [type |-> "stats_update", data |-> get_stats(db_events)])
    /\ fs' = [fs EXCEPT ![r] = IF rename_ok THEN "processed" ELSE "watched"]
    /\ trace' = [trace EXCEPT ![r] = @ \o << "broadcast:stats_update",
                                             IF rename_ok THEN "rename" ELSE "rename_failed" >>]
    /\ logger_error' = [logger_error EXCEPT ![r] =
          IF rename_ok THEN @ ELSE Append(@, "rename")]
    /\ pc' = [pc EXCEPT ![r] = "returned"]
    /\ UNCHANGED << file, event, has_yellow_plate, event_id, db_events, db_seq,
                    files_processed, call,
                    watcher_vars, manager_vars >>

\* Lines 251-263: get_stats returns; the stats_update broadcast and the move
\* to the processed folder.
StatsReturn(r, rename_ok) ==
    /\ pc[r] = "stats"
    /\ broadcasts' = Append(broadcasts, [type |-> "stats_update", data |-> get_stats(db_events)])
    /\ fs' = [fs EXCEPT ![r] = IF rename_ok THEN "processed" ELSE "watched"]
    /\ trace' = [trace EXCEPT ![r] = @ \o << "broadcast:stats_update",
                                             IF rename_ok THEN "rename" ELSE "rename_failed" >>]
    /\ logger_error' = [logger_error EXCEPT ![r] =
          IF rename_ok THEN @ ELSE Append(@, "rename")]
    /\ pc' = [pc EXCEPT ![r] = "returned"]
    /\ UNCHANGED << file, event, has_yellow_plate, event_id, db_events, db_seq,
                    files_processed, call,
                    watcher_vars, manager_vars >>

(***************************************************************************)
(* file_watcher.py: NewFileHandler and DynamicWatcher                      *)
(***************************************************************************)

\* A handler that does not look at the paths it has seen.
rejects_no_seen(h, path, is_directory, stat) ==
    \/ is_directory
    \/ lower(suffix(path)) \notin VALID_EXTENSIONS
    \/ stat = {}
    \/ \E file_ctime \in stat : file_ctime < h.start_time

\* A handler that takes a file of any extension.
rejects_any_extension(h, path, is_directory, stat) ==
    \/ is_directory
    \/ path \in h.processed_files
    \/ stat = {}
    \/ \E file_ctime \in stat : file_ctime < h.start_time

\* NewFileHandler.on_created, lines 50-75: the early returns of handler h.
rejects(h, path, is_directory, stat) ==
    \/ is_directory
    \/ lower(suffix(path)) \notin VALID_EXTENSIONS
    \/ path \in h.processed_files
    \/ stat = {}
    \/ \E file_ctime \in stat : file_ctime < h.start_time

\* NewFileHandler.on_created, for one event of the notifier thread.  The
\* event is logged with what was the case when it arrived (stat raised; the
\* file is older than the session; the path was seen); task is the position
\* in tasks of the coroutine it scheduled, 0 when it scheduled none.
on_created(path, is_directory, stat) ==
    /\ observer = "alive"
    /\ Len(log) < MaxCreated
    /\ \A file_ctime \in stat : file_ctime <= now
    /\ LET rejected == rejects(handler, path, is_directory, stat)
           entry == [ path |-> path, is_directory |-> is_directory,
                      stat_failed |-> stat = {},
                      old |-> \E file_ctime \in stat : file_ctime < handler.start_time,
                      seen |-> path \in handler.processed_files,
                      session |-> session,
                      task |-> IF rejected THEN 0 ELSE Len(tasks) + 1 ]
       IN  /\ log' = Append(log, entry)
           /\ IF rejected
              THEN UNCHANGED << handler, tasks, pending >>
              ELSE /\ handler' = [handler EXCEPT !.processed_files = @ \cup {path}]
                   /\ tasks' = Append(tasks, [path |-> path, session |-> session])
                   /\ pending' = pending \cup {Len(tasks) + 1}
    /\ UNCHANGED << observer, watched_folder, start_time, session, now, dispatched,
                    pc, file, fs, event, has_yellow_plate, event_id, trace,
                    db_events, db_seq, files_processed, broadcasts, logger_error, call, manager_vars >>

\* A coroutine that ends after its sleep without calling the callback.
delayed_callback_lost(i) ==
    /\ i \in pending
    /\ pending' = pending \ {i}
    /\ UNCHANGED << observer, watched_folder, start_time, handler, session, now, log,
                    tasks, dispatched,
                    pc, file, fs, event, has_yellow_plate, event_id, trace,
                    db_events, db_seq, files_processed, broadcasts, logger_error, call, manager_vars >>

\* NewFileHandler.delayed_callback: the sleep of coroutine i is over and it
\* calls the callback with its path.
delayed_callback(i) ==
    /\ i \in pending
    /\ pending' = pending \ {i}
    /\ dispatched' = Append(dispatched, i)
    /\ UNCHANGED << observer, watched_folder, start_time, handler, session, now, log,
                    tasks,
                    pc, file, fs, event, has_yellow_plate, event_id, trace,
                    db_events, db_seq, files_processed, broadcasts, logger_error, call, manager_vars >>

\* The first component of what DynamicWatcher.stop returns: True when there
\* is no observer and when the observer was stopped and joined, False when
\* join raised, which it does for an observer whose thread never started.
stop_success == observer # "unstarted"

\* DynamicWatcher.is_active
is_active == observer = "alive"

\* DynamicWatcher.stop, on the watcher's own fields.  The join of an
\* observer that was never started raises, and the except branch leaves
\* every field as it was.
stop ==
    IF observer = None \/ observer = "unstarted"
    THEN UNCHANGED << observer, watched_folder, start_time, handler >>
    ELSE /\ observer' = None
         /\ watched_folder' = None
         /\ start_time' = {}
         /\ handler' = NoHandler

\* The call of DynamicWatcher.stop.
WatcherStop ==
    /\ stop
    /\ UNCHANGED << session, now, log, tasks, pending, dispatched,
                    pc, file, fs, event, has_yellow_plate, event_id, trace,
                    db_events, db_seq, files_processed, broadcasts, logger_error, call, manager_vars >>

\* The call of DynamicWatcher.start: it stops the observer first; with a
\* folder that does not exist or is no directory it returns there, else it
\* starts a new observer with a new handler.
WatcherStart(folder_ok) ==
    /\ session < MaxSessions
    /\ IF ~folder_ok
       THEN /\ stop
            /\ UNCHANGED << session, files_processed >>
       ELSE /\ start_time' = {now}
            /\ watched_folder' = "folder"
            /\ files_processed' = 0
            /\ handler' = [start_time |-> now, processed_files |-> {}]
            /\ observer' = "alive"
            /\ session' = session + 1
    /\ UNCHANGED << now, log, tasks, pending, dispatched,
                    pc, file, fs, event, has_yellow_plate, event_id, trace,
                    db_events, db_seq, broadcasts, logger_error, call, manager_vars >>

\* The call of DynamicWatcher.start whose try block raises at
\* observer.schedule or observer.start (lines 190-192): the fields are
\* already set and the new observer is assigned, but its thread never
\* started.
WatcherStartRaises ==
    /\ start_time' = {now}
    /\ watched_folder' = "folder"
    /\ files_processed' = 0
    /\ handler' = [start_time |-> now, processed_files |-> {}]
    /\ observer' = "unstarted"
    /\ UNCHANGED << session, now, log, tasks, pending, dispatched,
                    pc, file, fs, event, has_yellow_plate, event_id, trace,
                    db_events, db_seq, broadcasts, logger_error, call, manager_vars >>

\* Time passes.
Tick ==
    /\ now < MaxClock
    /\ now' = now + 1
    /\ UNCHANGED << observer, watched_folder, start_time, handler, session, log,
                    tasks, pending, dispatched,
                    pc, file, fs, event, has_yellow_plate, event_id, trace,
                    db_events, db_seq, files_processed, broadcasts, logger_error, call, manager_vars >>

(***************************************************************************)
(* main.py: ConnectionManager and websocket_endpoint                       *)
(***************************************************************************)

PipelineVars ==
    << pc, file, fs, event, has_yellow_plate, event_id, trace,
       db_events, db_seq, files_processed, broadcasts, logger_error, call >>

\* manager.connect, called by websocket_endpoint for socket s: the socket is
\* accepted and added to the set.
connect(s) ==
    /\ endpoint[s] = "closed"
    /\ endpoint' = [endpoint EXCEPT ![s] = "open"]
    /\ active_connections' = active_connections \cup {s}
    /\ bcast' = IF bcast.pc = "send" THEN [bcast EXCEPT !.joined = @ \cup {s}] ELSE bcast
    /\ UNCHANGED << replay, PipelineVars, watcher_vars >>

\* manager.disconnect, called in the finally of websocket_endpoint.
disconnect(s) ==
    /\ endpoint[s] = "open"
    /\ endpoint' = [endpoint EXCEPT ![s] = "closed"]
    /\ active_connections' = active_connections \ {s}
    /\ bcast' = IF bcast.pc = "send" /\ s \in active_connections
                THEN [bcast EXCEPT !.left = @ \cup {s}] ELSE bcast
    /\ UNCHANGED << replay, PipelineVars, watcher_vars >>

\* The for statement of broadcast asks the set iterator for its next element,
\* b being the call's record.  An iterator of a set whose size is not the size
\* it started with raises RuntimeError, outside the try.  Else it yields an
\* element it has not yielded, in the order of the hash table; over a set
\* whose elements changed at equal size it may stop with elements left.
\* After the loop the failed connections are discarded.
next_connection(b) ==
    IF Cardinality(active_connections) # b.size
    THEN /\ bcast' = [b EXCEPT !.pc = "raised", !.connection = 0]
         /\ UNCHANGED active_connections
    ELSE \/ \E c \in active_connections \ b.visited :
              /\ bcast' = [b EXCEPT !.pc = "send", !.connection = c, !.visited = @ \cup {c}]
              /\ UNCHANGED active_connections
         \/ /\ active_connections \ b.visited = {} \/ b.left \cup b.joined # {}
            /\ bcast' = [b EXCEPT !.pc = "returned", !.connection = 0]
            /\ active_connections' = active_connections \ b.disconnected

\* manager.broadcast(message), from the call to its first await.
broadcast(message) ==
    /\ bcast.pc \in {"idle", "returned", "raised"}
    /\ IF active_connections = {}
       THEN /\ bcast' = [NoBroadcast EXCEPT !.pc = "returned", !.message = message]
            /\ UNCHANGED active_connections
       ELSE next_connection([NoBroadcast EXCEPT !.message = message,
                                                 !.size = Cardinality(active_connections),
                                                 !.initial = active_connections])
    /\ UNCHANGED << endpoint, replay, PipelineVars, watcher_vars >>

\* A broadcast that lets the exception of a send out.
send_json_returns_propagates(ok) ==
    /\ bcast.pc = "send"
    /\ IF ok
       THEN next_connection([bcast EXCEPT !.delivered = @ \cup {bcast.connection}])
       ELSE /\ bcast' = [bcast EXCEPT !.pc = "raised", !.connection = 0]
            /\ UNCHANGED active_connections
    /\ UNCHANGED << endpoint, replay, PipelineVars, watcher_vars >>

\* await connection.send_json(message) returns, or raises into the except
\* clause; then the loop goes on.
send_json_returns(ok) ==
    /\ bcast.pc = "send"
    /\ IF ok
       THEN next_connection([bcast EXCEPT !.delivered = @ \cup {bcast.connection}])
       ELSE next_connection([bcast EXCEPT !.disconnected = @ \cup {bcast.connection}])
    /\ UNCHANGED << endpoint, replay, PipelineVars, watcher_vars >>

(***************************************************************************)
(* main.py: websocket_endpoint, one action per stretch between two awaits  *)
(***************************************************************************)

\* websocket.send_json(message) on socket s, by the endpoint itself: the
\* message goes out after the broadcasts made so far.
send_json(s, message) == Append(replay[s].sent, [at |-> Len(broadcasts), message |-> message])

\* WatcherStatus(...) of lines 474-479.
WatcherStatus ==
    [ is_active |-> is_active, watched_folder |-> watched_folder,
      started_at |-> start_time, files_processed |-> files_processed ]

\* Lines 470-484: manager.connect accepts the socket and adds it to the set;
\* status_update is sent, and get_stats awaited.
websocket_endpoint(s) ==
    /\ endpoint[s] = "closed"
    /\ endpoint' = [endpoint EXCEPT ![s] = "open"]
    /\ active_connections' = active_connections \cup {s}
    /\ replay' = [replay EXCEPT ![s] =
          [ NoReplay EXCEPT !.pc = "get_stats",
                            !.joined = Len(broadcasts),
                            !.sent = << [at |-> Len(broadcasts),
                                         message |-> [type |-> "status_update",
                                                      data |-> WatcherStatus]] >> ]]
    /\ UNCHANGED << bcast, PipelineVars, watcher_vars >>

\* Lines 487-492: get_stats returns; stats_update is sent, and get_events
\* awaited.
get_stats_returns(s) ==
    /\ replay[s].pc = "get_stats"
    /\ replay' = [replay EXCEPT ![s].pc = "get_events",
                                ![s].sent = send_json(s, [type |-> "stats_update",
                                                          data |-> get_stats(db_events)])]
    /\ UNCHANGED << active_connections, endpoint, bcast, PipelineVars, watcher_vars >>

\* The for statement of lines 493-497 over the events still to send: the
\* next one is sent, or the loop ends and receive_text is awaited.
next_event(s, events) ==
    IF events = << >>
    THEN replay' = [replay EXCEPT ![s].pc = "receive", ![s].events = << >>]
    ELSE replay' = [replay EXCEPT ![s].pc = "send",
                                  ![s].events = Tail(events),
                                  ![s].sent = send_json(s, [type |-> "new_event",
                                                            data |-> Head(events)])]

\* Line 492: get_events(limit=20) returns the rows stored by now.
get_events_returns(s) ==
    /\ replay[s].pc = "get_events"
    /\ next_event(s, reversed(get_events(db_events, ReplayLimit)))
    /\ UNCHANGED << active_connections, endpoint, bcast, PipelineVars, watcher_vars >>

\* Line 494: the send of a stored event returns.
replay_send_returns(s) ==
    /\ replay[s].pc = "send"
    /\ next_event(s, replay[s].events)
    /\ UNCHANGED << active_connections, endpoint, bcast, PipelineVars, watcher_vars >>

\* Lines 500-510: receive_text raises WebSocketDisconnect; the finally
\* clause calls manager.disconnect.
websocket_disconnect(s) ==
    /\ replay[s].pc = "receive"
    /\ endpoint' = [endpoint EXCEPT ![s] = "closed"]
    /\ active_connections' = active_connections \ {s}
    /\ replay' = [replay EXCEPT ![s].pc = "closed", ![s].left = Len(broadcasts)]
    /\ UNCHANGED << bcast, PipelineVars, watcher_vars >>

\* The messages socket s has been sent since it connected, in order: those
\* of its endpoint and the broadcasts made while it was in the set.
RECURSIVE received_from(_, _)
received_from(s, n) ==
    LET own  == SelectSeq(replay[s].sent, LAMBDA m : m.at = n)
        msgs == [i \in 1..Len(own) |-> own[i].message]
        last == IF replay[s].pc = "closed" THEN replay[s].left ELSE Len(broadcasts)
    IN  IF n >= last THEN msgs
        ELSE msgs \o << broadcasts[n + 1] >> \o received_from(s, n + 1)

received(s) == IF replay[s].pc = "none" THEN << >> ELSE received_from(s, replay[s].joined)

(***************************************************************************)
(* Specifications                                                          *)
(***************************************************************************)

\* One run, over all inputs.
Next ==
    \/ \E f \in FileNames, ok \in BOOLEAN : Start(1, f, ok)
    \/ \E a \in PreScreenAnswers, ok \in BOOLEAN : PreScreenReturn(1, a, ok)
    \/ \E w \in Responses : GovReturn(1, w)
    \/ \E a \in YellowAnswers, ok \in BOOLEAN : YellowReturn(1, a, ok)
    \/ \E a \in VerifyAnswers : VerifyReturn(1, a)
    \/ SaveCommit(1)
    \/ SaveFail(1)
    \/ SaveReturn(1)
    \/ \E ok \in BOOLEAN : StatsReturn(1, ok)

Spec == Init /\ [][Next]_vars

\* Several runs in flight, over fewer inputs.
NextConc ==
    \E r \in Runs :
        \/ \E f \in FewFileNames : Start(r, f, TRUE)
        \/ \E a \in FewPreScreenAnswers : PreScreenReturn(r, a, TRUE)
        \/ \E w \in FewResponses : GovReturn(r, w)
        \/ \E a \in FewYellowAnswers : YellowReturn(r, a, TRUE)
        \/ \E a \in FewVerifyAnswers : VerifyReturn(r, a)
        \/ SaveCommit(r)
        \/ SaveFail(r)
        \/ SaveReturn(r)
        \/ StatsReturn(r, TRUE)

SpecConc == Init /\ [][NextConc]_vars

\* Several runs in flight, over a match in the main registry and no
\* record at all.
NextAwait ==
    \E r \in Runs :
        \/ \E f \in FewFileNames : Start(r, f, TRUE)
        \/ \E a \in FewPreScreenAnswers : PreScreenReturn(r, a, TRUE)
        \/ \E w \in MainOrNoResponses : GovReturn(r, w)
        \/ \E a \in FewYellowAnswers : YellowReturn(r, a, TRUE)
        \/ \E a \in FewVerifyAnswers : VerifyReturn(r, a)
        \/ SaveCommit(r)
        \/ SaveFail(r)
        \/ SaveReturn(r)
        \/ StatsReturn(r, TRUE)

\* These runs, where every registry query returns or fails within its
\* timeout (httpx.AsyncClient(timeout=...)) and the store answers.  Nothing
\* makes a vision call return.
SpecAwaitFair ==
    /\ Init
    /\ [][NextAwait]_vars
    /\ \A r \in Runs :
          /\ WF_vars(\E w \in MainOrNoResponses : GovReturn(r, w))
          /\ WF_vars(SaveCommit(r) \/ SaveFail(r))
          /\ WF_vars(SaveReturn(r))
          /\ WF_vars(StatsReturn(r, TRUE))

\* Several runs in flight, started in the order of their numbers: run r is
\* the r-th file to arrive at process_new_file.
NextArrival ==
    \E r \in Runs :
        \/ /\ \A q \in 1..(r - 1) : pc[q] # "idle"
           /\ \E f \in FewFileNames : Start(r, f, TRUE)
        \/ \E a \in FewPreScreenAnswers : PreScreenReturn(r, a, TRUE)
        \/ \E w \in FewResponses : GovReturn(r, w)
        \/ \E a \in FewYellowAnswers : YellowReturn(r, a, TRUE)
        \/ \E a \in FewVerifyAnswers : VerifyReturn(r, a)
        \/ SaveCommit(r)
        \/ SaveFail(r)
        \/ SaveReturn(r)
        \/ StatsReturn(r, TRUE)

SpecArrival == Init /\ [][NextArrival]_vars

\* file_watcher.py line 94 and main.py line 82: the r-th coroutine to wake
\* calls the callback, process_new_file, with its path.
Callback(r) ==
    /\ r <= Len(dispatched)
    /\ Start(r, tasks[dispatched[r]].path, TRUE)

\* The watcher and the runs it dispatches: captures with names of their own
\* are created in the watched folder, each dispatched path starts a run,
\* and the watcher is stopped and restarted meanwhile.
NextSystem ==
    \/ WatcherStart(TRUE)
    \/ WatcherStop
    \/ \E path \in SamePlateNames :
          /\ \A k \in 1..Len(tasks) : tasks[k].path # path
          /\ on_created(path, FALSE, {now})
    \/ \E i \in 1..MaxCreated : delayed_callback(i)
    \/ \E r \in Runs :
          \/ Callback(r)
          \/ \E a \in FewPreScreenAnswers : PreScreenReturn(r, a, TRUE)
          \/ \E w \in MainOrNoResponses : GovReturn(r, w)
          \/ \E a \in FewYellowAnswers : YellowReturn(r, a, TRUE)
          \/ \E a \in FewVerifyAnswers : VerifyReturn(r, a)
          \/ SaveCommit(r)
          \/ SaveFail(r)
          \/ SaveReturn(r)
          \/ StatsReturn(r, TRUE)

SpecSystem == Init /\ [][NextSystem]_vars

\* The resolver on its own, over all answers of the registries.
InitGov ==
    /\ InitPipeline
    /\ call \in { [fn |-> "search_all_databases", arg |-> w, done |-> FALSE,
                   ret |-> [raised |-> FALSE, queried |-> << >>, data |-> GovData_default]] :
                  w \in Responses }
    /\ InitWatcher
    /\ InitManager

Resolve ==
    /\ call.fn = "search_all_databases"
    /\ ~call.done
    /\ call' = [call EXCEPT !.done = TRUE, !.ret = search_all_databases(call.arg)]
    /\ UNCHANGED << pc, file, fs, event, has_yellow_plate, event_id, trace,
                    db_events, db_seq, files_processed, broadcasts, logger_error,
                    watcher_vars, manager_vars >>

NextGov == Resolve

SpecGov == InitGov /\ [][NextGov]_vars

\* The watcher on its own: sessions, created events and dispatches.
NextWatch ==
    \/ \E folder_ok \in BOOLEAN : WatcherStart(folder_ok)
    \/ WatcherStop
    \/ WatcherStartRaises
    \/ \E path \in WatchPaths, is_directory \in BOOLEAN, stat \in Stats :
          on_created(path, is_directory, stat)
    \/ \E i \in 1..MaxCreated : delayed_callback(i)
    \/ Tick

SpecWatch == Init /\ [][NextWatch]_vars

\* The event loop runs every coroutine scheduled on it.
SpecWatchFair ==
    /\ Init
    /\ [][NextWatch]_vars
    /\ \A i \in 1..MaxCreated : WF_vars(delayed_callback(i))

\* The subscribers and one broadcast at a time.
NextManager ==
    \/ \E s \in Sockets : connect(s)
    \/ \E s \in Sockets : disconnect(s)
    \/ \E message \in Messages : broadcast(message)
    \/ \E ok \in BOOLEAN : send_json_returns(ok)

SpecManager == Init /\ [][NextManager]_vars

\* Runs that complete while subscribers connect: a broadcast of a run
\* reaches every socket of the set at once.
NextReplay ==
    \/ \E r \in Runs :
          \/ \E f \in FewFileNames : Start(r, f, TRUE)
          \/ PreScreenReturn(r, Answer("json", FALSE, 0), TRUE)
          \/ \E w \in MainOrNoResponses : GovReturn(r, w)
          \/ YellowReturn(r, Answer("json", TRUE, 80), TRUE)
          \/ VerifyReturn(r, Answer("json", TRUE, AI_CONFIDENCE_THRESHOLD))
          \/ SaveCommit(r)
          \/ SaveReturn(r)
          \/ StatsReturn(r, TRUE)
    \/ \E s \in Subscribers :
          \/ websocket_endpoint(s)
          \/ get_stats_returns(s)
          \/ get_events_returns(s)
          \/ replay_send_returns(s)
          \/ websocket_disconnect(s)

SpecReplay == Init /\ [][NextReplay]_vars

\* The vision operations on their own, over the texts of responses.
InitVision ==
    /\ InitPipeline
    /\ InitWatcher
    /\ InitManager
    /\ call \in { [fn |-> f, arg |-> input, done |-> FALSE, ret |-> [value |-> None]] :
                  f \in {"analyze_vehicle_image", "pre_screen_image", "detect_yellow_plate"},
                  input \in VisionInputs }

Analyze ==
    /\ call.fn = "analyze_vehicle_image"
    /\ ~call.done
    /\ call' = [call EXCEPT !.done = TRUE,
                            !.ret = [value |-> analyze_vehicle_image(input_answer(call.arg))]]
    /\ UNCHANGED << pc, file, fs, event, has_yellow_plate, event_id, trace,
                    db_events, db_seq, files_processed, broadcasts, logger_error,
                    watcher_vars, manager_vars >>

PreScreen ==
    /\ call.fn = "pre_screen_image"
    /\ ~call.done
    /\ call' = [call EXCEPT !.done = TRUE,
                            !.ret = [value |-> pre_screen_image(input_answer(call.arg))]]
    /\ UNCHANGED << pc, file, fs, event, has_yellow_plate, event_id, trace,
                    db_events, db_seq, files_processed, broadcasts, logger_error,
                    watcher_vars, manager_vars >>

DetectYellow ==
    /\ call.fn = "detect_yellow_plate"
    /\ ~call.done
    /\ call' = [call EXCEPT !.done = TRUE,
                            !.ret = [value |-> detect_yellow_plate(input_answer(call.arg))]]
    /\ UNCHANGED << pc, file, fs, event, has_yellow_plate, event_id, trace,
                    db_events, db_seq, files_processed, broadcasts, logger_error,
                    watcher_vars, manager_vars >>

NextVision == Analyze \/ PreScreen \/ DetectYellow

SpecVision == InitVision /\ [][NextVision]_vars

\* parse_filename on its own, over names built from components.
InitParse ==
    /\ InitPipeline
    /\ InitWatcher
    /\ InitManager
    /\ call \in { [fn |-> "parse_filename", arg |-> input, done |-> FALSE,
                   ret |-> [valid |-> FALSE, error |-> None]] :
                  input \in ParseInputs }

Parse ==
    /\ call.fn = "parse_filename"
    /\ ~call.done
    /\ call' = [call EXCEPT !.done = TRUE,
                            !.ret = parse_filename(JoinParts(call.arg.parts) \o call.arg.ext)]
    /\ UNCHANGED << pc, file, fs, event, has_yellow_plate, event_id, trace,
                    db_events, db_seq, files_processed, broadcasts, logger_error,
                    watcher_vars, manager_vars >>

NextParse == Parse

SpecParse == InitParse /\ [][NextParse]_vars

\* The store on its own, holding some rows, before it is cleared.
InitStore ==
    /\ pc = [r \in Runs |-> "idle"]
    /\ file = [r \in Runs |-> << >>]
    /\ fs = [r \in Runs |-> "none"]
    /\ event = [r \in Runs |-> NoEvent]
    /\ has_yellow_plate = [r \in Runs |-> None]
    /\ event_id = [r \in Runs |-> 0]
    /\ trace = [r \in Runs |-> << >>]
    /\ db_events \in StoredRows
    /\ db_seq = Len(db_events)
    /\ files_processed = 0
    /\ broadcasts = << >>
    /\ logger_error = [r \in Runs |-> << >>]
    /\ InitWatcher
    /\ InitManager
    /\ call = [fn |-> "clear_non_alert_events", arg |-> db_events, done |-> FALSE, ret |-> 0]

\* main.py, clear_non_alert_events: the rows are deleted, the statistics and
\* the remaining events are broadcast, and the count is returned.
clear_non_alert_events ==
    /\ call.fn = "clear_non_alert_events"
    /\ ~call.done
    /\ LET out == delete_non_alert_events(db_events)
       IN  /\ db_events' = out.rows
           /\ broadcasts' = broadcasts \o
                 << [type |-> "stats_update", data |-> get_stats(out.rows)],
                    [type |-> "events_cleared", data |-> [remaining |-> out.rows]] >>
           /\ call' = [call EXCEPT !.done = TRUE, !.ret = out.deleted_count]
    /\ UNCHANGED << pc, file, fs, event, has_yellow_plate, event_id, trace,
                    db_seq, files_processed, logger_error,
                    watcher_vars, manager_vars >>

NextStore == clear_non_alert_events

SpecStore == InitStore /\ [][NextStore]_vars

(***************************************************************************)
(* Properties                                                              *)
(***************************************************************************)

Has(calls, x) == \E i \in 1..Len(calls) : calls[i] = x

Count(calls, x) == Cardinality({i \in 1..Len(calls) : calls[i] = x})

QueryNames == {"get:" \o k : k \in DbKeys}

VisionNames == {"pre_screen_image", "detect_yellow_plate", "analyze_vehicle_image"}

\* The rows of the events table that run r's file stands in.
RowsOf(r) == {i \in 1..Len(db_events) : db_events[i].image_filename = file[r]}

\* The broadcasts of the given type that carry run r's event.
EventBroadcastsOf(r) ==
    {i \in 1..Len(broadcasts) :
        /\ broadcasts[i].type = "new_event"
        /\ broadcasts[i].data.image_filename = file[r]}

\* Run r has persisted nothing, notified nothing and not counted itself.
NoEffects(r) ==
    /\ RowsOf(r) = {}
    /\ EventBroadcastsOf(r) = {}
    /\ \A x \in {"save_event", "increment_processed", "broadcast:new_event",
                 "broadcast:stats_update", "rename", "rename_failed"} : ~Has(trace[r], x)

\* Run r has ended by deleting its file: unlink was its last call, and the
\* file is gone unless unlink itself failed.
EndedByDelete(r) ==
    /\ pc[r] = "returned"
    /\ Len(trace[r]) > 0
    /\ trace[r][Len(trace[r])] \in {"unlink", "unlink_failed"}
    /\ Count(trace[r], "unlink") + Count(trace[r], "unlink_failed") = 1
    /\ fs[r] = (IF Has(trace[r], "unlink") THEN "deleted" ELSE "watched")

\* The counter counts the runs that incremented it, once each.
Accounting ==
    /\ files_processed = Cardinality({r \in Runs : Has(trace[r], "increment_processed")})
    /\ \A r \in Runs : Count(trace[r], "increment_processed") <= 1

\* The index in GOV_SEARCH_ORDER of the first registry that answers with a record.
FirstMatch(w) ==
    LET hits == {i \in 1..Len(GOV_SEARCH_ORDER) : w[GOV_SEARCH_ORDER[i]] \in RecordShapes}
    IN  IF hits = {} THEN 0 ELSE Min(hits)

C2_NegativeYellowDiscards ==
    /\ Accounting
    /\ \A r \in Runs :
        (has_yellow_plate[r] = "False") =>
            /\ event[r].gov_data.alert_type = "FAKE_PLATE"
            /\ ~event[r].gov_data.found
            /\ NoEffects(r)
            /\ EndedByDelete(r)
            /\ Len(db_events) = Cardinality({q \in Runs : RowsOf(q) # {}})

C2_Witness ==
    \E r \in Runs :
        /\ has_yellow_plate[r] = "False"
        /\ event[r].gov_data.alert_type = "FAKE_PLATE"
        /\ pc[r] = "returned"
        /\ fs[r] = "deleted"
        /\ db_events = << >>
        /\ files_processed = 0

\* The event of run r is stored once, as the run holds it.
PersistedOnce(r) ==
    /\ Cardinality(RowsOf(r)) = 1
    /\ Count(trace[r], "save_event") = 1
    /\ \A i \in RowsOf(r) : db_events[i] = [event[r] EXCEPT !.id = event_id[r]]

\* Run r has come back from save_event.
Persisted(r) == pc[r] \in {"saved", "stats"} \/ (pc[r] = "returned" /\ RowsOf(r) # {})

\* C3 as stated: a positive yellow-plate check on an unmatched plate gives one
\* FAKE_PLATE event whose verdict is target found with confidence 100.
C3_FakePlateHighConfidence ==
    \A r \in Runs :
        (has_yellow_plate[r] = "True" /\ Persisted(r)) =>
            /\ PersistedOnce(r)
            /\ event[r].status = "FAKE_PLATE"
            /\ event[r].ai_analysis.target_found
            /\ event[r].ai_analysis.confidence = 100
            /\ ~Has(trace[r], "analyze_vehicle_image")

\* C3 amended: a positive yellow-plate check on an unmatched plate gives exactly
\* one event, of status FAKE_PLATE, with a synthetic verdict made without any
\* verify call; that verdict is target_found = false with confidence 0.
C3_FakePlateSyntheticVerdict ==
    \A r \in Runs :
        (has_yellow_plate[r] = "True") =>
            /\ event[r].gov_data.alert_type = "FAKE_PLATE"
            /\ event[r].status = "FAKE_PLATE"
            /\ event[r].ai_analysis.target_found = FALSE
            /\ event[r].ai_analysis.confidence = 0
            /\ event[r].ai_analysis.scene_description = "fake_plate"
            /\ ~Has(trace[r], "analyze_vehicle_image")
            /\ Persisted(r) => PersistedOnce(r)
            /\ Count(trace[r], "save_event") = 1

C3_Witness ==
    \E r \in Runs :
        /\ has_yellow_plate[r] = "True"
        /\ pc[r] = "returned"
        /\ Len(db_events) = 1
        /\ db_events[1].status = "FAKE_PLATE"
        /\ db_events[1].ai_analysis.confidence = 0

\* Run r's plate was found in a registry that carries no alert.
FoundNoAlert(r) ==
    /\ event[r].status # "NONE"
    /\ event[r].gov_data.found
    /\ event[r].gov_data.alert_type = None

\* C4: a plate found in a registry without alert is VERIFIED exactly when the
\* verdict has target_found and confidence >= 75, and ALERT otherwise; the
\* stored row carries that status.
C4_VerifiedThreshold ==
    \A r \in Runs :
        (FoundNoAlert(r) /\ Has(trace[r], "save_event")) =>
            LET v == event[r].ai_analysis
            IN  /\ event[r].status \in {"VERIFIED", "ALERT"}
                /\ (event[r].status = "VERIFIED") <=> (v.target_found /\ v.confidence >= 75)
                /\ (v.target_found /\ v.confidence = 75) => event[r].status = "VERIFIED"
                /\ (v.target_found /\ v.confidence = 74) => event[r].status = "ALERT"
                /\ ~v.target_found => event[r].status = "ALERT"
                /\ \A i \in RowsOf(r) : db_events[i].status = event[r].status

C4_Witness ==
    \E r \in Runs :
        /\ FoundNoAlert(r)
        /\ pc[r] = "returned"
        /\ event[r].ai_analysis.target_found
        /\ event[r].ai_analysis.confidence = 75
        /\ Len(db_events) = 1
        /\ db_events[1].status = "VERIFIED"

\* The plate of run r's file, once the run has started on a file name that parses.
PlateOf(r) == parse_filename(file[r]).lpr

Started(r) == pc[r] # "idle"

Parsed(r) == Started(r) /\ parse_filename(file[r]).valid

\* A 7-digit plate whose last two digits are 90..99.
SuffixPlate(lpr) ==
    /\ Len(lpr) = 7
    /\ \A i \in 1..7 : lpr[i] \in Digits
    /\ lpr[6] = "9"

\* C5: a run on a 7-digit plate ending in 90..99 has deleted its file and has
\* produced no event and no notification, without asking a registry and
\* without a vision call.
C5_SuffixDiscarded ==
    \A r \in Runs :
        (Parsed(r) /\ SuffixPlate(PlateOf(r))) =>
            /\ EndedByDelete(r)
            /\ NoEffects(r)
            /\ event[r] = NoEvent
            /\ \A i \in 1..Len(trace[r]) :
                 /\ trace[r][i] \notin QueryNames \cup VisionNames
                 /\ trace[r][i] # "get_vehicle_data"

C5_Witness ==
    \E r \in Runs :
        /\ Parsed(r)
        /\ PlateOf(r) = << "7", "0", "7", "2", "9", "9", "6" >>
        /\ pc[r] = "returned"
        /\ fs[r] = "deleted"
        /\ trace[r] = << "unlink" >>

\* C6: when the first matching registry carries NO_LICENSE or OFF_ROAD, the
\* event's status is that alert type, its verdict is target_found with
\* confidence 100, it is persisted once, and the run calls neither verify nor
\* the yellow-plate check.
C6_RegistryAlert ==
    \A r \in Runs :
        (event[r].status # "NONE" /\ event[r].gov_data.alert_type \in {"NO_LICENSE", "OFF_ROAD"}) =>
            /\ event[r].gov_data.found
            /\ event[r].status = event[r].gov_data.alert_type
            /\ event[r].ai_analysis.target_found
            /\ event[r].ai_analysis.confidence = 100
            /\ ~Has(trace[r], "analyze_vehicle_image")
            /\ ~Has(trace[r], "detect_yellow_plate")
            /\ Persisted(r) => PersistedOnce(r)
            /\ Count(trace[r], "save_event") = 1

C6_Witness ==
    \E r \in Runs :
        /\ pc[r] = "returned"
        /\ event[r].status = "OFF_ROAD"
        /\ event[r].gov_data.source_db = "db:off_road_2"
        /\ Len(db_events) = 1
        /\ db_events[1].status = "OFF_ROAD"
        /\ db_events[1].ai_analysis.confidence = 100

TerminalStatuses == {"VERIFIED", "ALERT", "UNKNOWN", "NO_LICENSE", "OFF_ROAD", "FAKE_PLATE"}

\* C7: every event handed to save_event, and every stored row, has a terminal
\* status: never PROCESSING, whatever get_vehicle_data returned.
C7_TerminalStatusAtSave ==
    /\ \A r \in Runs : Has(trace[r], "save_event") => event[r].status \in TerminalStatuses
    /\ \A i \in 1..Len(db_events) : db_events[i].status \in TerminalStatuses

\* C7 witness: the resolver ended in an error result and the row is stored.
C7_Witness ==
    \E r \in Runs :
        /\ pc[r] = "returned"
        /\ event[r].status = "UNKNOWN"
        /\ event[r].gov_data.error # None
        /\ Len(db_events) = 1
        /\ db_events[1].status = "UNKNOWN"

\* What decides the status of run r.
StatusInputs(r) ==
    << event[r].gov_data.alert_type, event[r].gov_data.found,
       event[r].ai_analysis.target_found, event[r].ai_analysis.confidence,
       has_yellow_plate[r] >>

Classified(r) == event[r].status \notin {"NONE", "PROCESSING"}

\* C8: two runs that agree on alert type, found flag, the verdict's
\* target_found and confidence and the yellow-plate result have the same status.
C8_StatusDependsOnInputsOnly ==
    \A r1, r2 \in Runs :
        (Classified(r1) /\ Classified(r2) /\ StatusInputs(r1) = StatusInputs(r2)) =>
            event[r1].status = event[r2].status

\* C8 witness: two runs in flight, on different plates, locations and
\* registries, agree on the inputs and on the status.
C8_Witness ==
    \E r1, r2 \in Runs :
        /\ r1 # r2
        /\ Classified(r1)
        /\ Classified(r2)
        /\ StatusInputs(r1) = StatusInputs(r2)
        /\ event[r1].lpr # event[r2].lpr
        /\ event[r1].location_id # event[r2].location_id
        /\ event[r1].gov_data.source_db # event[r2].gov_data.source_db
        /\ event[r1].status = "VERIFIED"
        /\ event[r2].status = "VERIFIED"
        /\ pc[r1] = "saved"
        /\ pc[r2] = "save"

\* Run r has ended at a discard point: it returned on a file name that parses
\* and moved nothing to the processed folder.
Discarded(r) ==
    /\ Parsed(r)
    /\ pc[r] = "returned"
    /\ \/ ~isdigit(PlateOf(r))
       \/ Len(PlateOf(r)) \notin {7, 8}
       \/ SuffixPlate(PlateOf(r))
       \/ (Has(trace[r], "pre_screen_image") /\ ~Has(trace[r], "get_vehicle_data"))
       \/ has_yellow_plate[r] = "False"

\* C9: a run that ended at a discard point has not called save_event, has not
\* broadcast, has not incremented the counter; the one thing it did to the
\* world is the attempt to delete its file.
C9_DiscardHasNoEffects ==
    /\ Accounting
    /\ \A r \in Runs :
        Discarded(r) =>
            /\ NoEffects(r)
            /\ EndedByDelete(r)
            /\ fs[r] # "processed"

C9_Witness ==
    \E r \in Runs :
        /\ Discarded(r)
        /\ trace[r] = << "pre_screen_image", "unlink" >>
        /\ fs[r] = "deleted"
        /\ db_events = << >>
        /\ broadcasts = << >>
        /\ files_processed = 0

\* Run r was given malformed input: a file name parse_filename rejects, a
\* plate with a non-digit, or a plate whose length is not 7 or 8.
Malformed(r) ==
    /\ Started(r)
    /\ \/ ~parse_filename(file[r]).valid
       \/ ~isdigit(PlateOf(r))
       \/ Len(PlateOf(r)) \notin {7, 8}

\* C10: a run on malformed input deletes the file, produces no event and
\* raises nothing.
C10_MalformedDeleted ==
    \A r \in Runs :
        Malformed(r) =>
            /\ pc[r] = "returned"
            /\ NoEffects(r)
            /\ event[r] = NoEvent
            /\ EndedByDelete(r)

(***************************************************************************)
(* C11                                                                     *)
(***************************************************************************)

\* The components of the name of run r's file.
PartsOf(r) == split(stem(file[r]), "_")

\* The name has four components and its third is a 17-digit timestamp.
MatchesLayout(r) ==
    /\ Len(PartsOf(r)) >= 4
    /\ Len(PartsOf(r)[3]) = 17
    /\ isdigit(PartsOf(r)[3])

\* The name has fewer than four components, or a third component of fewer
\* than 14 characters.
TooShort(r) ==
    \/ Len(PartsOf(r)) < 4
    \/ Len(PartsOf(r)[3]) < 14

\* C11 as stated: a run on a file name that does not match the layout (fewer
\* than four components, or a third component that is not a 17-digit
\* timestamp) finds the name invalid and produces no event.
C11_NonLayoutInvalid ==
    \A r \in Runs :
        (Started(r) /\ ~MatchesLayout(r)) =>
            /\ ~parse_filename(file[r]).valid
            /\ event[r] = NoEvent
            /\ RowsOf(r) = {}

\* C11, amended: a run on a file name with fewer than four components, or
\* with a third component of fewer than 14 characters, finds the name
\* invalid, returns at once and produces no event: it makes no call,
\* persists nothing and notifies nothing.
C11_ShortNameInvalid ==
    \A r \in Runs :
        (Started(r) /\ TooShort(r)) =>
            /\ ~parse_filename(file[r]).valid
            /\ pc[r] = "returned"
            /\ event[r] = NoEvent
            /\ trace[r] = << >>
            /\ NoEffects(r)

\* A run on a name whose third component has 13 characters has returned.
C11_Witness ==
    \E r \in Runs :
        /\ pc[r] = "returned"
        /\ Len(PartsOf(r)) >= 4
        /\ Len(PartsOf(r)[3]) = 13
        /\ event[r] = NoEvent

(***************************************************************************)
(* C12                                                                     *)
(***************************************************************************)

\* The path and the session of the i-th call of the callback.
DispatchOf(i) == tasks[dispatched[i]]

\* C12 as stated: over any sequence of created events and of start and stop
\* calls, the callback is called at most once for any path.
C12_OncePerLifetime ==
    \A i, j \in 1..Len(dispatched) :
        i # j => DispatchOf(i).path # DispatchOf(j).path

\* C12, amended: within one watch session the callback is called at most
\* once for any path, and no coroutine calls it twice.
C12_OncePerSession ==
    \A i, j \in 1..Len(dispatched) :
        i # j =>
            /\ dispatched[i] # dispatched[j]
            /\ DispatchOf(i).session = DispatchOf(j).session
                  => DispatchOf(i).path # DispatchOf(j).path

\* A path was dispatched, and a later created event for it in the same
\* session, for a file as new as the session, scheduled nothing.
C12_Witness ==
    \E i \in 1..Len(dispatched), k \in 1..Len(log) :
        /\ log[k].path = DispatchOf(i).path
        /\ log[k].session = DispatchOf(i).session
        /\ log[k].seen
        /\ ~log[k].is_directory
        /\ ~log[k].stat_failed
        /\ ~log[k].old
        /\ log[k].task = 0

(***************************************************************************)
(* C13                                                                     *)
(***************************************************************************)

\* The k-th created event is for a file, with a recognised image extension,
\* created not before the session started, at a path not yet seen.
Eligible(k) ==
    /\ k <= Len(log)
    /\ ~log[k].is_directory
    /\ lower(suffix(log[k].path)) \in VALID_EXTENSIONS
    /\ ~log[k].stat_failed
    /\ ~log[k].old
    /\ ~log[k].seen

\* The k-th created event has led to one call of the callback for its path.
DispatchedOnce(k) ==
    /\ k <= Len(log)
    /\ log[k].task \in 1..Len(tasks)
    /\ tasks[log[k].task].path = log[k].path
    /\ Count(dispatched, log[k].task) = 1

\* C13: every created event for a file with a recognised image extension,
\* created not before the session start, at a path not yet seen, leads in the
\* end to one call of the callback for that path, and never to more than
\* one, while the event loop runs the coroutines scheduled on it.
C13_EligibleEventDispatched ==
    /\ \A k \in 1..MaxCreated : Eligible(k) ~> DispatchedOnce(k)
    /\ [](\A k \in 1..MaxCreated :
            (Eligible(k) /\ log[k].task \in 1..Len(tasks))
                => Count(dispatched, log[k].task) <= 1)

\* An eligible event whose coroutine has called the callback after the
\* watcher was stopped.
C13_Witness ==
    \E k \in 1..MaxCreated :
        /\ Eligible(k)
        /\ DispatchedOnce(k)
        /\ observer = None

(***************************************************************************)
(* C14                                                                     *)
(***************************************************************************)

\* Run r persisted its event, broadcast new_event and tried the move.
CompletedOutcome(r) ==
    /\ RowsOf(r) # {}
    /\ EventBroadcastsOf(r) # {}
    /\ Has(trace[r], "rename") \/ Has(trace[r], "rename_failed")

\* Run r tried to delete its file and persisted and broadcast nothing.
DeletedOutcome(r) ==
    /\ Has(trace[r], "unlink") \/ Has(trace[r], "unlink_failed")
    /\ RowsOf(r) = {}
    /\ EventBroadcastsOf(r) = {}
    /\ ~Has(trace[r], "broadcast:new_event")
    /\ ~Has(trace[r], "broadcast:stats_update")

\* C14: every run that has returned ended in exactly one of two ways:
\* persisted, notified and move attempted, or deletion attempted with nothing
\* persisted or broadcast; never neither and never both.
C14_TwoOutcomes ==
    \A r \in Runs :
        pc[r] = "returned" =>
            /\ CompletedOutcome(r) \/ DeletedOutcome(r)
            /\ ~(CompletedOutcome(r) /\ DeletedOutcome(r))

(***************************************************************************)
(* C15                                                                     *)
(***************************************************************************)

\* The position of the first x in calls, 0 when there is none.
IndexOf(calls, x) ==
    IF Has(calls, x) THEN Min({i \in 1..Len(calls) : calls[i] = x}) ELSE 0

\* x and y are both in calls only with x before y, and y is there only with x.
Before(calls, x, y) ==
    Has(calls, y) => (Has(calls, x) /\ IndexOf(calls, x) < IndexOf(calls, y))

\* The call that disposes of the file.
Disposals == {"rename", "rename_failed", "unlink", "unlink_failed"}

\* C15: in a run that reaches classification, save_event returns the id
\* first, then new_event is broadcast with that id and the status of the
\* stored row, then stats_update is broadcast, then the file is moved; the
\* file is neither moved nor deleted before the event is persisted.
C15_PersistNotifyDispose ==
    \A r \in Runs :
        Has(trace[r], "save_event") =>
            /\ Before(trace[r], "save_event", "broadcast:new_event")
            /\ Before(trace[r], "broadcast:new_event", "broadcast:stats_update")
            /\ \A d \in Disposals :
                  /\ Before(trace[r], "broadcast:stats_update", d)
                  /\ Has(trace[r], d) => d \in {"rename", "rename_failed"}
            /\ Has(trace[r], "broadcast:new_event") =>
                  /\ event_id[r] \in 1..Len(db_events)
                  /\ db_events[event_id[r]].id = event_id[r]
                  /\ db_events[event_id[r]].image_filename = file[r]
                  /\ \E i \in EventBroadcastsOf(r) :
                        /\ broadcasts[i].data.id = event_id[r]
                        /\ broadcasts[i].data.status = db_events[event_id[r]].status
                        /\ broadcasts[i].data.status \in TerminalStatuses
                        /\ Has(trace[r], "broadcast:stats_update") =>
                              \E j \in 1..Len(broadcasts) :
                                  i < j /\ broadcasts[j].type = "stats_update"
                  /\ Cardinality(EventBroadcastsOf(r)) = 1
            /\ RowsOf(r) = {} => fs[r] = "watched"

\* A run has gone all the way to the move with the second id of the store.
C15_Witness ==
    \E r \in Runs :
        /\ pc[r] = "returned"
        /\ Has(trace[r], "rename")
        /\ fs[r] = "processed"
        /\ event_id[r] = 2
        /\ \E i \in EventBroadcastsOf(r) : broadcasts[i].data.id = 2

(***************************************************************************)
(* C16                                                                     *)
(***************************************************************************)

\* The name of run r's file parses, its plate is digits only, of 7 or 8
\* digits, and not a 7-digit plate ending in 90..99.
LocalChecksPass(r) ==
    /\ Parsed(r)
    /\ isdigit(PlateOf(r))
    /\ Len(PlateOf(r)) \in {7, 8}
    /\ ~SuffixPlate(PlateOf(r))

\* The registry queries and vision calls run r has made.
RemoteCalls(r) ==
    {i \in 1..Len(trace[r]) :
        trace[r][i] \in QueryNames \cup VisionNames \cup {"get_vehicle_data"}}

\* C16: a run makes a registry query or a vision call only after its file
\* name has parsed and its plate has passed the digits, length and suffix
\* checks; a run that one of these checks rejects has made no such call.
C16_LocalChecksFirst ==
    \A r \in Runs :
        /\ RemoteCalls(r) # {} => LocalChecksPass(r)
        /\ (Started(r) /\ ~LocalChecksPass(r)) =>
              /\ pc[r] = "returned"
              /\ RemoteCalls(r) = {}
              /\ \A i \in 1..Len(trace[r]) : trace[r][i] \in {"unlink", "unlink_failed"}

\* A run on a plate of six digits has returned without any call.
C16_Witness ==
    \E r \in Runs :
        /\ pc[r] = "returned"
        /\ Parsed(r)
        /\ isdigit(PlateOf(r))
        /\ Len(PlateOf(r)) = 6
        /\ RemoteCalls(r) = {}

(***************************************************************************)
(* C17                                                                     *)
(***************************************************************************)

\* The positions in GOV_SEARCH_ORDER of the registries that fail: timeout,
\* transport error or non-success response.
Failing(w) == {i \in 1..Len(GOV_SEARCH_ORDER) : w[GOV_SEARCH_ORDER[i]] = "error"}

\* C17: a registry that fails counts as no match for that registry alone.
\* The resolver does not raise because of it and reports no error, it goes on
\* to the next registry of the order, and a match in a later registry is
\* what it returns.
C17_FailureIsNoMatch ==
    (call.fn = "search_all_databases" /\ call.done) =>
        LET w     == call.arg
            out   == call.ret
            first == FirstMatch(w)
        IN  /\ \A i \in Failing(w) :
                  (first = 0 \/ i < first) =>
                      /\ i <= Len(out.queried)
                      /\ out.queried[i] = GOV_SEARCH_ORDER[i]
                      /\ i < Len(GOV_SEARCH_ORDER) =>
                            /\ i + 1 <= Len(out.queried)
                            /\ out.queried[i + 1] = GOV_SEARCH_ORDER[i + 1]
            /\ out.raised => (first > 0 /\ w[GOV_SEARCH_ORDER[first]] = "coded")
            /\ out.data.error = None
            /\ (first > 0 /\ ~out.raised) =>
                  /\ out.data.found
                  /\ out.data.source_db = GOV_DATABASES[GOV_SEARCH_ORDER[first]].name

\* The first registry failed and the second holds the plate: both were
\* asked and the result is the second registry's.
C17_Witness ==
    /\ call.fn = "search_all_databases"
    /\ call.done
    /\ call.arg[GOV_SEARCH_ORDER[1]] = "error"
    /\ call.arg[GOV_SEARCH_ORDER[2]] = "named"
    /\ call.ret.queried = << GOV_SEARCH_ORDER[1], GOV_SEARCH_ORDER[2] >>
    /\ call.ret.data.found
    /\ call.ret.data.source_db = GOV_DATABASES[GOV_SEARCH_ORDER[2]].name

(***************************************************************************)
(* C18                                                                     *)
(***************************************************************************)

\* C18: when no registry of the order answers with a record, each having no
\* record or failing, the resolver returns found = false with alert type
\* FAKE_PLATE and a non-empty alert message, and it has asked every registry
\* of the order exactly once.
C18_ExhaustedIsFakePlate ==
    (call.fn = "search_all_databases" /\ call.done /\ FirstMatch(call.arg) = 0) =>
        LET out == call.ret
        IN  /\ ~out.raised
            /\ ~out.data.found
            /\ out.data.alert_type = "FAKE_PLATE"
            /\ out.data.alert_message \notin {None, ""}
            /\ Len(out.queried) = Len(GOV_SEARCH_ORDER)
            /\ \A k \in DbKeys : Count(out.queried, k) = 1

\* No registry holds the plate and two of them failed; the resolver has
\* returned.
C18_Witness ==
    /\ call.fn = "search_all_databases"
    /\ call.done
    /\ FirstMatch(call.arg) = 0
    /\ Cardinality(Failing(call.arg)) = 2
    /\ call.ret.data.alert_type = "FAKE_PLATE"
    /\ call.ret.queried = GOV_SEARCH_ORDER

(***************************************************************************)
(* C19                                                                     *)
(***************************************************************************)

\* C19: a broadcast during whose sends subscribers connect or disconnect
\* does not raise, and when it returns it has sent the message to every
\* subscriber that was connected at its start and stayed connected.
C19_BroadcastToleratesChanges ==
    /\ bcast.pc # "raised"
    /\ bcast.pc = "returned" =>
          \A s \in bcast.initial \ bcast.left : s \in bcast.visited

(***************************************************************************)
(* C20                                                                     *)
(***************************************************************************)

\* C20: at the return of broadcast every subscriber whose send raised is out
\* of the active set, broadcast has removed nobody else, and every
\* subscriber whose send succeeded has the message and is in the set unless
\* it disconnected itself meanwhile.  A send that raises does not raise out
\* of broadcast: broadcast raises only when the set changed size under its
\* loop; and with no change of the set under the loop every subscriber was
\* sent to, whichever sends raised.
C20_FailedSendsDropped ==
    [][ /\ (bcast.pc = "send" /\ bcast'.pc = "returned") =>
              /\ bcast'.disconnected \cap active_connections' = {}
              /\ active_connections' = active_connections \ bcast'.disconnected
              /\ \A s \in bcast'.delivered :
                    s \in active_connections' \/ s \in bcast'.left
              /\ bcast'.delivered \cup bcast'.disconnected = bcast'.visited
              /\ bcast'.delivered \cap bcast'.disconnected = {}
              /\ (bcast'.left \cup bcast'.joined = {}) =>
                    bcast'.visited = bcast'.initial
        /\ (bcast.pc = "send" /\ bcast'.pc = "raised") =>
              Cardinality(active_connections) # bcast.size
      ]_vars

\* A broadcast to three subscribers has returned with no change of the set
\* under its loop: one send raised and that subscriber is out of the set,
\* two succeeded and those are in it.
C20_Witness ==
    /\ bcast.pc = "returned"
    /\ Cardinality(bcast.initial) = 3
    /\ bcast.left \cup bcast.joined = {}
    /\ Cardinality(bcast.disconnected) = 1
    /\ Cardinality(bcast.delivered) = 2
    /\ active_connections = bcast.delivered

(***************************************************************************)
(* C21                                                                     *)
(***************************************************************************)

\* A call of the vision operation f on a response has returned.
Answered(f) ==
    /\ call.fn = f
    /\ call.done
    /\ call.arg.kind = "response"

\* The text from the first "{" to the last "}" of the response, empty when
\* there is no such stretch.
Stretch(content) ==
    LET opens  == Positions(content, "{")
        closes == Positions(content, "}")
    IN  IF opens = {} \/ closes = {} \/ Max(closes) < Min(opens)
        THEN << >>
        ELSE SubSeq(content, Min(opens), Max(closes))

\* C21: analyze_vehicle_image returns a verdict for every input, and for a
\* response with no JSON object to extract, or whose extracted text does
\* not parse, the verdict is target_found = false, confidence = 0 with a
\* reasoning that notes the parse failure.
C21_UnparsableVerdict ==
    (call.fn = "analyze_vehicle_image" /\ call.done) =>
        /\ call.ret.value.target_found \in BOOLEAN
        /\ call.ret.value.confidence \in 0..MaxConfidence
        /\ (call.arg.kind = "response" /\ ~json_loads_ok(Stretch(call.arg.content))) =>
              /\ call.ret.value.target_found = FALSE
              /\ call.ret.value.confidence = 0
              /\ call.ret.value.reasoning = "parse_error"

\* analyze_vehicle_image has answered a response in which the object is
\* never closed.
C21_Witness ==
    /\ Answered("analyze_vehicle_image")
    /\ call.arg.content = << "{", "flag:true", "conf:50" >>
    /\ call.ret.value.reasoning = "parse_error"

(***************************************************************************)
(* C22                                                                     *)
(***************************************************************************)

\* The first balanced brace-delimited object of the text: from the first
\* "{" to the brace that closes it; empty when there is none.
FirstBalancedObject(content) ==
    LET first  == find(content, "{") + 1
        closes == {j \in first..Len(content) :
                      first >= 1 /\ Depth(content, j) - Depth(content, first - 1) = 0}
    IN  IF first < 1 \/ closes = {}
        THEN << >>
        ELSE SubSeq(content, first, Min(closes))

\* The answer read from the first balanced object of the text.
BalancedAnswer(content) ==
    LET obj == FirstBalancedObject(content)
    IN  IF json_loads_ok(obj)
        THEN [kind |-> "json", flag |-> get_flag(obj), confidence |-> get_confidence(obj)]
        ELSE [kind |-> "no_json", flag |-> FALSE, confidence |-> 0]

\* C22: on every response text each of the three vision operations returns
\* what the first balanced brace-delimited object of the text says, also
\* when that object is followed by prose with a further "}" or by a second
\* object.
C22_FirstBalancedObjectParsed ==
    /\ Answered("analyze_vehicle_image") =>
          call.ret.value = analyze_vehicle_image(BalancedAnswer(call.arg.content))
    /\ Answered("pre_screen_image") =>
          call.ret.value = pre_screen_image(BalancedAnswer(call.arg.content))
    /\ Answered("detect_yellow_plate") =>
          call.ret.value = detect_yellow_plate(BalancedAnswer(call.arg.content))

(***************************************************************************)
(* C23                                                                     *)
(***************************************************************************)

\* C23: detect_yellow_plate is positive exactly when the response parses
\* and says yellow_plate_found = true with a confidence of 50 or more;
\* found with 49 is negative, not found is negative at every confidence, and
\* so are a missing image, an exception and a response that does not parse.
C23_YellowPlateThreshold ==
    (call.fn = "detect_yellow_plate" /\ call.done) =>
        LET obj == Stretch(call.arg.content)
        IN  call.ret.value =
              ( /\ call.arg.kind = "response"
                /\ json_loads_ok(obj)
                /\ get_flag(obj)
                /\ get_confidence(obj) >= 50 )

\* Found with confidence 50 was positive.
C23_Witness ==
    /\ Answered("detect_yellow_plate")
    /\ call.arg.content = << "{", "flag:true", "conf:50", "}" >>
    /\ call.ret.value = TRUE

(***************************************************************************)
(* C24                                                                     *)
(***************************************************************************)

\* The extension of the path, compared without regard to case, is one of
\* .jpg, .jpeg, .png.
ImageExtension(path) ==
    lower(suffix(path)) \in { << ".", "j", "p", "g" >>,
                              << ".", "j", "p", "e", "g" >>,
                              << ".", "p", "n", "g" >> }

\* The created event logged last is for a directory, for a path with another
\* extension, for a file older than the session, or for a file whose stat
\* failed.
Unfit(e) ==
    \/ e.is_directory
    \/ ~ImageExtension(e.path)
    \/ e.old
    \/ e.stat_failed

\* C24: a created event for a directory, for a path whose extension is not
\* .jpg, .jpeg or .png whatever its case, for a file created before the
\* session started or for a file whose stat fails schedules no dispatch and
\* leaves the seen-path set as it was.
C24_UnfitEventIgnored ==
    [][ Len(log') = Len(log) + 1 =>
          LET e == log'[Len(log')]
          IN  Unfit(e) =>
                /\ e.task = 0
                /\ tasks' = tasks
                /\ pending' = pending
                /\ dispatched' = dispatched
                /\ handler'.processed_files = handler.processed_files
      ]_vars

\* A file with the extension .JPG was taken, and the event after it, for a
\* directory with a recognised extension, scheduled nothing.
C24_Witness ==
    /\ Len(log) = 2
    /\ log[1].path = << "a", ".", "J", "P", "G" >>
    /\ log[1].task = 1
    /\ log[2].is_directory
    /\ ImageExtension(log[2].path)
    /\ ~log[2].seen
    /\ log[2].task = 0
    /\ Len(tasks) = 1

(***************************************************************************)
(* C25                                                                     *)
(***************************************************************************)

\* C25: parse_filename finds a name invalid exactly when its stem has fewer
\* than four components or a third component of fewer than 14 characters.
\* Otherwise location_id is the first two components joined by "_",
\* display_date is DD/MM/YYYY from characters 0..7 of the third component,
\* display_time is HH:MM:SS from its characters 8..13, and lpr is the fourth
\* component as it stands.
C25_ParseFilenameExact ==
    (call.fn = "parse_filename" /\ call.done) =>
        LET parts == call.arg.parts
            out   == call.ret
        IN  IF Len(parts) < 4 \/ Len(parts[3]) < 14
            THEN ~out.valid
            ELSE LET t == parts[3]
                 IN  /\ out.valid
                     /\ out.location_id = parts[1] \o << "_" >> \o parts[2]
                     /\ out.display_date =
                          << t[7], t[8], "/", t[5], t[6], "/", t[1], t[2], t[3], t[4] >>
                     /\ out.display_time =
                          << t[9], t[10], ":", t[11], t[12], ":", t[13], t[14] >>
                     /\ out.lpr = parts[4]

\* A name of four components with a timestamp of 14 digits and no
\* extension was parsed: 11/12/2025, 12:14:34.
C25_Witness ==
    /\ call.fn = "parse_filename"
    /\ call.done
    /\ call.arg.ext = << >>
    /\ Len(call.arg.parts) = 4
    /\ Len(call.arg.parts[3]) = 14
    /\ call.ret.valid
    /\ call.ret.display_date = << "1", "1", "/", "1", "2", "/", "2", "0", "2", "5" >>
    /\ call.ret.display_time = << "1", "2", ":", "1", "4", ":", "3", "4" >>

(***************************************************************************)
(* C26                                                                     *)
(***************************************************************************)

\* The run's verify call failed: the verdict is one of the three that
\* analyze_vehicle_image makes up when the image is missing, the call raises
\* or the text has no object.
VerifyFailed(r) ==
    /\ pc[r] \in {"save", "saved", "stats", "returned", "raised"}
    /\ \E i \in 1..Len(trace[r]) : trace[r][i] = "analyze_vehicle_image"
    /\ event[r].ai_analysis.scene_description
         \in {"error:no_file", "content", "error:exception"}

\* The failed verify has become an ALERT with a verdict of confidence 0, and
\* the run that has returned has persisted it once, notified it and moved
\* the file (or logged that the move failed).
VerifyFailureHandled(r) ==
    /\ event[r].status = "ALERT"
    /\ ~event[r].ai_analysis.target_found
    /\ event[r].ai_analysis.confidence = 0
    /\ pc[r] = "raised" => trace[r][Len(trace[r])] = "save_event_raised"
    /\ pc[r] = "returned" =>
          /\ Cardinality({i \in 1..Len(db_events) :
                            db_events[i].image_filename = file[r]}) = 1
          /\ \E i \in 1..Len(db_events) :
                /\ db_events[i] = event[r]
                /\ \E j \in 1..Len(broadcasts) :
                      broadcasts[j] = [type |-> "new_event", data |-> db_events[i]]
          /\ trace[r][Len(trace[r])] \in {"rename", "rename_failed"}
          /\ trace[r][Len(trace[r])] = "rename" => fs[r] = "processed"

\* C26: a failing vision call never aborts a run.  A failed verify (missing
\* image, exception, text with no object) still ends in one persisted event
\* with status ALERT and a verdict of confidence 0, notified, the file
\* moved; a failed pre-screen means "do not skip" and the run goes on to the
\* registries.
C26_VisionFailureNeverAborts ==
    /\ [](\A r \in Runs : VerifyFailed(r) => VerifyFailureHandled(r))
    /\ [][ \A r \in Runs, a \in Failures, ok \in BOOLEAN :
             PreScreenReturn(r, a, ok) =>
               /\ pc'[r] = "gov"
               /\ trace'[r][Len(trace'[r])] = "get_vehicle_data"
               /\ fs'[r] = "watched"
         ]_vars

\* A run whose verify call raised after a pre-screen has returned: one ALERT
\* of confidence 0 in the store and the file in the processed folder.
C26_Witness ==
    /\ pc[1] = "returned"
    /\ VerifyFailed(1)
    /\ event[1].ai_analysis.scene_description = "error:exception"
    /\ Len(db_events) = 1
    /\ db_events[1].status = "ALERT"
    /\ fs[1] = "processed"

(***************************************************************************)
(* C27                                                                     *)
(***************************************************************************)

\* get_vehicle_data has returned to the run a result that is not found and
\* has no alert type.
Unresolved(r) ==
    /\ pc[r] \in {"save", "saved", "stats", "returned", "raised"}
    /\ event[r] # NoEvent
    /\ ~event[r].gov_data.found
    /\ event[r].gov_data.alert_type = None

\* C27: when the resolver returns found = false with no alert type, the run
\* makes no verify call and no yellow-plate call, and its one event has
\* status UNKNOWN and the verdict target_found = false, confidence = 0.
C27_UnresolvedIsUnknown ==
    \A r \in Runs :
        Unresolved(r) =>
            /\ \A i \in 1..Len(trace[r]) :
                  trace[r][i] \notin {"analyze_vehicle_image", "detect_yellow_plate"}
            /\ event[r].status = "UNKNOWN"
            /\ ~event[r].ai_analysis.target_found
            /\ event[r].ai_analysis.confidence = 0
            /\ pc[r] = "returned" =>
                  /\ Cardinality({i \in 1..Len(db_events) :
                                    db_events[i].image_filename = file[r]}) = 1
                  /\ \E i \in 1..Len(db_events) :
                        /\ db_events[i] = event[r]
                        /\ db_events[i].status = "UNKNOWN"

\* A run whose resolver failed has returned with its UNKNOWN event stored.
C27_Witness ==
    /\ pc[1] = "returned"
    /\ Unresolved(1)
    /\ event[1].gov_data.error = "error"
    /\ Len(db_events) = 1
    /\ db_events[1].status = "UNKNOWN"

(***************************************************************************)
(* C28                                                                     *)
(***************************************************************************)

\* save_event has raised in run r.
SaveFailed(r) == Has(trace[r], "save_event_raised")

\* The run whose save_event raised has called it once, has broadcast and
\* counted nothing, and has left the file where it was.
SaveFailureContained(r) ==
    /\ Count(trace[r], "save_event") = 1
    /\ RowsOf(r) = {}
    /\ EventBroadcastsOf(r) = {}
    /\ \A x \in {"increment_processed", "broadcast:new_event", "broadcast:stats_update",
                 "rename", "rename_failed", "unlink", "unlink_failed"} :
          ~Has(trace[r], x)
    /\ fs[r] = "watched"

\* C28: when save_event fails in a run, the run logs the failure, does not
\* call save_event again, broadcasts no new_event and no stats_update for
\* the event, does not increment the processed counter, and neither moves
\* nor deletes the file.
C28_SaveFailureLogged ==
    \A r \in Runs :
        SaveFailed(r) =>
            /\ \E i \in 1..Len(logger_error[r]) : logger_error[r][i] = "save_event"
            /\ SaveFailureContained(r)

(***************************************************************************)
(* C29                                                                     *)
(***************************************************************************)

\* C29: a failure to delete or to move the file never raises out of the run
\* and never undoes what the run did before.  After a failed delete the run
\* has returned with no event persisted or notified; after a failed move
\* the run has returned, its event is in the store and was notified, and
\* the file is still in the watched folder.
C29_DisposalFailureHarmless ==
    \A r \in Runs :
        /\ Has(trace[r], "unlink_failed") =>
              /\ pc[r] = "returned"
              /\ NoEffects(r)
              /\ fs[r] = "watched"
        /\ Has(trace[r], "rename_failed") =>
              /\ pc[r] = "returned"
              /\ Cardinality(RowsOf(r)) = 1
              /\ \A i \in RowsOf(r) : db_events[i] = event[r]
              /\ EventBroadcastsOf(r) # {}
              /\ Has(trace[r], "increment_processed")
              /\ fs[r] = "watched"

\* A run has returned after a failed move, with its event stored and
\* notified and the failure logged.
C29_Witness ==
    /\ pc[1] = "returned"
    /\ Has(trace[1], "rename_failed")
    /\ logger_error[1] = << "rename" >>
    /\ Len(db_events) = 1
    /\ EventBroadcastsOf(1) # {}
    /\ fs[1] = "watched"

(***************************************************************************)
(* C30                                                                     *)
(***************************************************************************)

\* C30: within one run no operation is repeated.  Each registry is queried
\* at most once; the pre-screen, the yellow-plate check and the verify are
\* each called at most once; save_event is called at most once; and at most
\* one of the verify and the yellow-plate check is called.
C30_NoOperationRepeated ==
    \A r \in Runs :
        /\ \A x \in QueryNames \cup VisionNames \cup {"save_event", "get_vehicle_data"} :
              Count(trace[r], x) <= 1
        /\ ~(Has(trace[r], "analyze_vehicle_image") /\ Has(trace[r], "detect_yellow_plate"))

\* A run has gone through the pre-screen, two registries, a failed verify
\* and save_event, and has returned.
C30_Witness ==
    /\ pc[1] = "returned"
    /\ Cardinality({x \in QueryNames : Has(trace[1], x)}) = 2
    /\ Count(trace[1], "pre_screen_image") = 1
    /\ Count(trace[1], "analyze_vehicle_image") = 1
    /\ event[1].ai_analysis.scene_description = "error:exception"
    /\ Count(trace[1], "save_event") = 1

(***************************************************************************)
(* C31                                                                     *)
(***************************************************************************)

\* The position in broadcasts of the new_event of run r.
NewEventAt(r) == CHOOSE i \in EventBroadcastsOf(r) : TRUE

\* C31: with several runs in flight the ids of the persisted events are
\* unique and follow the order of the commits: the row committed earlier
\* has the smaller id, and each run is handed the id of its own row,
\* whatever the order in which the files arrived.
C31_IdsFollowCommitOrder ==
    /\ \A i, j \in 1..Len(db_events) :
          i < j => db_events[i].id < db_events[j].id
    /\ \A r \in Runs :
          RowsOf(r) # {} =>
              /\ Cardinality(RowsOf(r)) = 1
              /\ \A i \in RowsOf(r) : db_events[i].id = event_id[r]
    /\ \A r, q \in Runs :
          (r # q /\ RowsOf(r) # {} /\ RowsOf(q) # {}) => event_id[r] # event_id[q]

\* The file that arrived second was committed first and has the smaller
\* id, and its new_event was broadcast before that of the first file.
C31_Witness ==
    /\ RowsOf(1) # {}
    /\ RowsOf(2) # {}
    /\ event_id[2] < event_id[1]
    /\ EventBroadcastsOf(1) # {}
    /\ EventBroadcastsOf(2) # {}
    /\ NewEventAt(2) < NewEventAt(1)

(***************************************************************************)
(* C32                                                                     *)
(***************************************************************************)

\* Run r is in flight.
InFlight(r) == pc[r] \notin {"idle", "returned", "raised"}

\* A run that awaits the registries, a vision verdict or the store can take
\* its next step, whatever the answer.
CanProceed(r) ==
    /\ pc[r] = "gov" => \A w \in MainOrNoResponses : ENABLED GovReturn(r, w)
    /\ pc[r] = "yellow" => \A a \in FewYellowAnswers : ENABLED YellowReturn(r, a, TRUE)
    /\ pc[r] = "verify" => \A a \in FewVerifyAnswers : ENABLED VerifyReturn(r, a)
    /\ pc[r] = "save" => ENABLED SaveCommit(r)
    /\ pc[r] = "saved" => ENABLED SaveReturn(r)
    /\ pc[r] = "stats" => ENABLED StatsReturn(r, TRUE)

\* Run r has returned as a whole run does: discarded on the word of the
\* pre-screen or of the yellow-plate check, or with one row and one
\* new_event of its own.
RanToItsEnd(r) ==
    /\ Has(trace[r], "pre_screen_image")
    /\ \/ /\ trace[r][Len(trace[r])] = "unlink"
          /\ RowsOf(r) = {}
       \/ /\ Cardinality(RowsOf(r)) = 1
          /\ Cardinality(EventBroadcastsOf(r)) = 1
          /\ \A i \in RowsOf(r) : db_events[i].lpr = PlateOf(r)

\* C32: runs for different paths that carry the same plate do not exclude
\* each other, and no stop or restart of the watcher cancels a run.  In
\* every state, whatever the other run and the watcher have done, a run in
\* flight can take its next step; every run that has returned ran to its
\* end, persisting and notifying its own event; and the rows of two runs
\* have different ids.
C32_SamePlateRunsIndependent ==
    /\ \A r \in Runs : CanProceed(r)
    /\ \A r \in Runs : pc[r] = "returned" => RanToItsEnd(r)
    /\ \A r, q \in Runs :
          (r # q /\ RowsOf(r) # {} /\ RowsOf(q) # {}) =>
              \A i \in RowsOf(r), j \in RowsOf(q) : db_events[i].id # db_events[j].id

\* Two paths of one plate were dispatched in the first session; the watcher
\* was restarted between the two commits; both runs have returned, each
\* with its own event.
C32_Witness ==
    /\ Len(tasks) = 2
    /\ tasks[1].session = 1
    /\ tasks[2].session = 1
    /\ session = 2
    /\ files_processed = 1
    /\ pc[1] = "returned"
    /\ pc[2] = "returned"
    /\ file[1] # file[2]
    /\ PlateOf(1) = PlateOf(2)
    /\ Len(db_events) = 2
    /\ db_events[1].id # db_events[2].id
    /\ Cardinality(EventBroadcastsOf(1)) = 1
    /\ Cardinality(EventBroadcastsOf(2)) = 1

(***************************************************************************)
(* C33                                                                     *)
(***************************************************************************)

\* Run r awaits a vision call.
AwaitsVision(r) == pc[r] \in {"pre_screen", "yellow", "verify"}

\* Run r has ended: it has returned, or save_event has raised out of it.
Terminated(r) == pc[r] \in {"returned", "raised"}

\* C33: when the registries answer within their timeout, a started run
\* whose vision calls all return or raise eventually terminates, and it
\* does so whatever becomes of the other runs: a run whose vision call
\* never returns waits forever, since the pipeline puts no time bound on
\* the call, and the other runs still progress to their end.
C33_RunsTerminate ==
    \A r \in Runs :
        ([]<>(~AwaitsVision(r))) => (Started(r) ~> Terminated(r))

\* One run still awaits its verify call while the run started beside it
\* has persisted its event and returned.
C33_Witness ==
    /\ pc[1] = "verify"
    /\ pc[2] = "returned"
    /\ RowsOf(2) # {}
    /\ Has(trace[2], "rename")

(***************************************************************************)
(* C34                                                                     *)
(***************************************************************************)

\* The paths for which the given session has scheduled a coroutine.
ScheduledIn(n) == {tasks[k].path : k \in {l \in 1..Len(tasks) : tasks[l].session = n}}

\* C34: within one watch session a path that has been dispatched is never
\* dispatched again, whether the second created event follows at once or a
\* new file appears at the path after the first was moved or deleted.  The
\* seen-path set is exactly the paths scheduled in the session; the check
\* of the set and the insertion into it are one step of the notifier
\* thread, so that an event for a seen path schedules nothing and an event
\* that schedules has put its path into the set.
C34_SeenPathNotRedispatched ==
    /\ [](/\ \A k, l \in 1..Len(tasks) :
               (k # l /\ tasks[k].session = tasks[l].session) => tasks[k].path # tasks[l].path
          /\ observer = "alive" => handler.processed_files = ScheduledIn(session))
    /\ [][ Len(log') = Len(log) + 1 =>
             LET e == log'[Len(log')]
             IN  /\ e.seen <=> e.path \in ScheduledIn(e.session)
                 /\ e.seen => (e.task = 0 /\ tasks' = tasks /\ pending' = pending)
                 /\ e.task # 0 =>
                       /\ ~e.seen
                       /\ e.path \in handler'.processed_files
                       /\ tasks' = Append(tasks, [path |-> e.path, session |-> e.session])
         ]_vars

\* The first event for a path was dispatched and its coroutine is over;
\* a later event for the same path in the same session, for a file created
\* after the session began, scheduled nothing.
C34_Witness ==
    /\ Len(log) = 2
    /\ log[1].path = log[2].path
    /\ log[1].session = log[2].session
    /\ log[1].task = 1
    /\ dispatched = << 1 >>
    /\ pending = {}
    /\ now = MaxClock
    /\ log[2].seen
    /\ ~log[2].is_directory
    /\ ~log[2].stat_failed
    /\ ~log[2].old
    /\ log[2].task = 0
    /\ Len(tasks) = 1

(***************************************************************************)
(* C35                                                                     *)
(***************************************************************************)

AlertStatuses == {"ALERT", "FAKE_PLATE", "NO_LICENSE", "OFF_ROAD"}

\* The positions of the rows of the given statuses.
RowsWith(rows, statuses) == {i \in 1..Len(rows) : rows[i].status \in statuses}

\* C35: after delete_non_alert_events every row left has status ALERT,
\* FAKE_PLATE, NO_LICENSE or OFF_ROAD; every row that had one of these
\* statuses before is still stored, unchanged; and the count returned is
\* the number of rows removed, those of status VERIFIED, UNKNOWN,
\* PROCESSING or ERROR.
C35_OnlyNonAlertsDeleted ==
    (call.fn = "clear_non_alert_events" /\ call.done) =>
        LET before == call.arg
        IN  /\ \A j \in 1..Len(db_events) : db_events[j].status \in AlertStatuses
            /\ \A i \in RowsWith(before, AlertStatuses) :
                  \E j \in 1..Len(db_events) : db_events[j] = before[i]
            /\ Len(db_events) = Cardinality(RowsWith(before, AlertStatuses))
            /\ call.ret = Cardinality(RowsWith(before, {"VERIFIED", "UNKNOWN",
                                                         "PROCESSING", "ERROR"}))
            /\ call.ret = Len(before) - Len(db_events)

\* A table of an UNKNOWN, an ALERT and a VERIFIED row was cleared: the
\* ALERT row is left, with its id, and 2 is returned.
C35_Witness ==
    /\ call.fn = "clear_non_alert_events"
    /\ call.done
    /\ Len(call.arg) = 3
    /\ call.arg[1].status = "UNKNOWN"
    /\ call.arg[2].status = "ALERT"
    /\ call.arg[3].status = "VERIFIED"
    /\ db_events = << [id |-> 2, status |-> "ALERT"] >>
    /\ call.ret = 2

(***************************************************************************)
(* C36                                                                     *)
(***************************************************************************)

\* C36: DynamicWatcher keeps at most one observer.  After a start that
\* fails on its checks the watcher is inactive, even if it was watching
\* before; after a successful start it is active, with watched_folder and
\* start_time set and files_processed 0; after a successful stop
\* watched_folder and start_time are None; and stop on an inactive watcher
\* succeeds and changes nothing.
C36_WatcherLifecycle ==
    /\ [](/\ is_active => (watched_folder # None /\ start_time # {})
          /\ ~is_active => stop_success)
    /\ [][ /\ WatcherStart(FALSE) => ~is_active'
           /\ WatcherStart(TRUE) =>
                 /\ is_active'
                 /\ watched_folder' # None
                 /\ start_time' # {}
                 /\ files_processed' = 0
           /\ (WatcherStop /\ stop_success) =>
                 /\ ~is_active'
                 /\ watched_folder' = None
                 /\ start_time' = {}
           /\ (WatcherStop /\ ~is_active) =>
                 UNCHANGED << observer, watched_folder, start_time, handler, files_processed >>
         ]_vars

(***************************************************************************)
(* C37                                                                     *)
(***************************************************************************)

\* The session whose observer dispatched run r.
SessionOf(r) == tasks[dispatched[r]].session

\* Run r has incremented the counter.
Counted(r) == Has(trace[r], "increment_processed")

\* The counter is incremented once per save_event that returned, and never
\* by a run that was discarded.
CountedOncePerSave ==
    \A r \in Runs :
        /\ Count(trace[r], "increment_processed") <= 1
        /\ Counted(r) <=> (pc[r] \in {"stats", "returned"} /\ RowsOf(r) # {})
        /\ Discarded(r) => ~Counted(r)

\* C37: files_processed is the number of events persisted by the runs that
\* were dispatched in the current watch session: one increment per
\* successful save_event, none for a discarded run, and none for a run of
\* an earlier session that completes after a restart.
C37_CounterCountsSessionRuns ==
    /\ CountedOncePerSave
    /\ is_active =>
          files_processed =
              Cardinality({r \in Runs : /\ r <= Len(dispatched)
                                        /\ SessionOf(r) = session
                                        /\ Counted(r)})

(***************************************************************************)
(* C38: the initial messages of a subscriber                               *)
(***************************************************************************)

\* The messages the endpoint of socket s has sent itself, in order.
OwnMessages(s) == [i \in 1..Len(replay[s].sent) |-> replay[s].sent[i].message]

\* The endpoint sends one status_update, one stats_update and then stored
\* events, at most the limit, each older than the next.
ReplayInOrder(s) ==
    LET own == OwnMessages(s)
    IN  /\ \A i \in 1..Len(own) :
              own[i].type = IF i = 1 THEN "status_update"
                            ELSE IF i = 2 THEN "stats_update" ELSE "new_event"
        /\ Len(own) <= 2 + ReplayLimit
        /\ \A i, j \in 3..Len(own) :
              i < j => own[i].data.timestamp < own[j].data.timestamp

\* No two messages to socket s are new_event messages of one event id.
NoEventTwice(s) ==
    LET got == received(s)
    IN  \A i, j \in 1..Len(got) :
            (i < j /\ got[i].type = "new_event" /\ got[j].type = "new_event")
                => got[i].data.id # got[j].data.id

\* C38: a subscriber that connects while runs are completing is sent, in
\* order, one status_update, one stats_update and then the stored events (at
\* most the limit, oldest first) as new_event messages, and it is never sent
\* a new_event of one event id twice, even when an event is persisted and
\* broadcast between its registration and the end of its initial replay.
C38_ReplayWithoutDuplicates ==
    \A s \in Subscribers :
        replay[s].pc # "none" => ReplayInOrder(s) /\ NoEventTwice(s)

====
